---- MODULE Spec2Model ----
(***************************************************************************)
(* Bot-message acquisition of the voice overlay: the Direct Line polling  *)
(* source (services/directLineService.js, hooks/useDirectLineBotMessages) *)
(* and the DOM-observation source (hooks/useTypingDetection.js,           *)
(* useChatbotMessages).                                                    *)
(*                                                                         *)
(* The speech-to-text service of the overlay (services/                    *)
(* sttServiceImproved.js) is modelled as well.                             *)
(*                                                                         *)
(* The specifications of the module:                                       *)
(*   SpecSel   getLatestBotMessage as a pure function of an activity log   *)
(*   SpecSvc   getBotActivities as a function of what fetch settles with   *)
(*   SpecPoll  one polling source: start, stop, interval ticks, fetches    *)
(*   SpecDom   one DOM source: timers, mutation batches, stability check   *)
(*   SpecObserve  the DOM source mounted before the container, fair timers *)
(*   SpecStt   the speech-to-text service: recognition events and timers   *)
(*   SpecTts   speakText / stopSpeaking and the speech synthesizer          *)
(*   SpecNet   the network monitor: detection and credentials listeners     *)
(*   SpecTyping  useTypingDetection: input events, interval and timeout     *)
(*   SpecWave  WaveformAnimation: the effect and its animation frames       *)
(*                                                                         *)
(* Strings whose content the code inspects (message texts, activity ids)   *)
(* are sequences of one-character strings.  undefined is the one-element   *)
(* sequence Undefined, which no real text equals.  Times are milliseconds. *)
(***************************************************************************)
EXTENDS Integers, Sequences, FiniteSets, TLC

VARIABLES
    \* ---- SpecSel
    activitiesData,    \* the argument of getLatestBotMessage
    selResult,         \* what it returned (NotCalled before the call)
    \* ---- SpecSvc
    fetchResponse,     \* what fetch settles with when getBotActivities calls it
    fetchResult,       \* what getBotActivities did (NotCalled before the call)
    \* ---- SpecPoll: hook state of useDirectLineBotMessages
    conversationId,    \* prop
    bearerToken,       \* prop
    isPolling,         \* useState
    error,             \* useState
    lastMessageRef,    \* useRef('')
    lastActivityIdRef, \* useRef('')
    pollingIntervalRef,\* useRef(null): NoTimer or "armed"
    isActiveRef,       \* useRef(false)
    \* ---- SpecPoll: environment and history
    serverLog,         \* the conversation's activity log at the remote service
    inflight,          \* fetches awaiting their response, in request order
    calls,             \* onBotMessage invocations of the polling source, in order
    prevSel,           \* what the last completed poll selected
    wantPolling,       \* a startPolling took effect and no stopPolling followed
    pollFailed,        \* a poll failed since that startPolling
    idleStop,          \* stopPolling has been called on a source not polling
    armedIntervals,    \* setInterval timers of the source not yet cleared
    startReturnedEarly,\* the last step was a startPolling that returned at a guard
    tickIssued,        \* the last step was a tick of the interval that sent a request
    \* ---- SpecDom: closure state of the effect of useChatbotMessages
    lastProcessedText,
    lastProcessedTime,
    messageStabilizationTimeout, \* when the pending timeout fires, or NoTimer
    lastSeenText,
    stabilizationCount,
    staleTimers,       \* pending stabilization timeouts the variable no longer names
    observing,         \* the MutationObserver is connected to the container
    intervalId,        \* when the 500 ms interval fires next, or NoTimer
    startTimers,       \* pending setTimeout(startObserving, ...) deadlines, sorted
    cleanedUp,         \* the effect's cleanup has run
    \* ---- SpecDom: the page, the clock and history
    now,               \* Date.now()
    containerPresent,  \* the webchat container element is in the document
    typingVisible,     \* a visible typing / loading indicator is in the container
    scenario,          \* which script of DomScripts the widget plays
    step,              \* how many of its DOM changes have happened
    lastChangeAt,      \* when the last of them happened
    slowChange,        \* a change came STABILIZATION_DELAY or more after the one before
    typingSeen,        \* the typing indicator has been visible at some time
    checkAfterCleanup, \* the stability check ran after the cleanup
    domCalls,           \* onBotMessage invocations of the DOM source, in order
    \* ---- SpecStt: module state of sttServiceImproved.js
    recognition,       \* "null", or the recognizer: "idle", "running",
                       \* "stopping" (stop() called), "failing" (error raised)
    sttSupported,      \* the browser has a SpeechRecognition constructor
    isListening,
    silenceTimeout,    \* the handle the variable holds (a deadline) or NoTimer
    lastTranscript,
    accumulatedText,
    \* ---- SpecStt: environment and ghosts
    silenceTimers,     \* the deadlines of the silence timeouts that are pending
    endTimers,         \* the pending setTimeout(..., 100) calls of onend
    sttNow,            \* the clock
    sttResults,        \* result events delivered so far
    finalized,         \* the final transcripts delivered since the texts were reset
    lastResultAt,      \* when a result last restarted the silence timeout
    cancelled,         \* an error, an end or stopListening since the last start
    sttErrorCalls,     \* the onError calls the last step made
    sttCalls,          \* the onFinalResult calls
    \* ---- SpecTts: module state of the text-to-speech part of the service
    currentUtterance,  \* the utterance the variable holds, 0 for null
    isSpeaking,
    \* ---- SpecTts: window.speechSynthesis
    ttsQueue,          \* the utterances speak() has queued, the first one first
    ttsStarted,        \* the first one is being spoken (its start event fired)
    ttsCancelled,      \* cancelled utterances whose last event is still to fire
    ttsMade,           \* utterances made so far
    \* ---- SpecNet: module state of the network monitor
    detectedConversationId,   \* its conversationId
    detectedBearerToken,      \* its bearerToken
    credentialsListeners,
    netMonitoring,     \* window.fetch and XMLHttpRequest are wrapped
    netSubscription,   \* per callback: "none", "subscribed", "unsubscribed"
    netCalls,          \* the listener calls the last step made, in order
    netHandler,        \* the function the last step ran
    \* ---- SpecTyping: useTypingDetection
    isTyping,          \* useState(false)
    typingTimeoutRef,  \* useRef(null): the deadline of the pending timeout, 0
    typingInterval,    \* the next tick of setInterval(checkTyping), 0 = cleared
    typingRetry,       \* the deadline of setTimeout(startMonitoring), 0 = none
    typingListening,   \* handleInput is attached to the inputs
    typingMounted,
    webchatLoaded,     \* the page has the Druid webchat element
    inputValue,        \* the text of its input field
    indicatorVisible,  \* the webchat shows a typing indicator
    typingNow,         \* the clock, ms
    lastInputAt,       \* the time of the last input event, -1 before the first
    \* ---- SpecWave: WaveformAnimation
    isActive,          \* prop
    isIdle,            \* prop
    waveMounted,
    animationFrameRef, \* useRef(null): the last frame requested, 0 for null
    waveHasCleanup,    \* the last effect returned its cleanup function
    pendingFrames,     \* the frames requested and neither run nor cancelled
    framesRequested,   \* requestAnimationFrame calls so far
    waveCancelled      \* the frames the last step cancelled
sttVars  == <<recognition, sttSupported, isListening, silenceTimeout,
              lastTranscript, accumulatedText, silenceTimers, endTimers,
              sttNow, sttResults, finalized, lastResultAt, cancelled,
              sttErrorCalls, sttCalls>>
ttsVars  == <<currentUtterance, isSpeaking, ttsQueue, ttsStarted, ttsCancelled,
              ttsMade>>
netVars  == <<detectedConversationId, detectedBearerToken,
              credentialsListeners, netMonitoring,
              netSubscription, netCalls, netHandler>>
typingVars == <<isTyping, typingTimeoutRef, typingInterval, typingRetry,
                typingListening, typingMounted, webchatLoaded, inputValue,
                indicatorVisible, typingNow, lastInputAt>>
waveVars == <<isActive, isIdle, waveMounted, animationFrameRef,
              waveHasCleanup, pendingFrames, framesRequested, waveCancelled>>
auxVars  == <<sttVars, ttsVars, netVars, typingVars, waveVars>>
selVars  == <<activitiesData, selResult, fetchResponse, fetchResult, auxVars>>
hookVars == <<isPolling, error, lastMessageRef, lastActivityIdRef,
              pollingIntervalRef, isActiveRef>>
pollVars == <<conversationId, bearerToken, isPolling, error, lastMessageRef,
              lastActivityIdRef, pollingIntervalRef, isActiveRef, serverLog,
              inflight, calls, prevSel, wantPolling, pollFailed, idleStop,
              armedIntervals, startReturnedEarly, tickIssued>>
closureVars == <<lastProcessedText, lastProcessedTime,
                 messageStabilizationTimeout, lastSeenText, stabilizationCount,
                 staleTimers, checkAfterCleanup, domCalls>>
pageVars == <<containerPresent, typingVisible, scenario, step, lastChangeAt,
              slowChange, typingSeen>>
domVars  == <<closureVars, pageVars, observing, intervalId, startTimers,
              cleanedUp, now>>
vars     == <<selVars, pollVars, domVars>>

(***************************************************************************)
(* Bounds of the model.                                                    *)
(***************************************************************************)
MaxLog == 3          \* activities in a log handed to getLatestBotMessage
MaxTs == 2           \* parsed timestamps are 1..MaxTs
MaxServerLog == 2    \* activities the remote log grows to
MaxInflight == 2     \* fetches in flight at once
MaxCalls == 2        \* no new fetch is issued once this many deliveries happened
MaxTime == 6000      \* milliseconds after the mount at which the clock stops
MountTime == 10000   \* Date.now() when the effect runs
MaxSttResults == 1   \* recognition result events in a run
MaxUtterances == 5   \* utterances speakText makes
MaxListeners == 2    \* callbacks in credentialsListeners at once
MaxFrames == 10      \* requestAnimationFrame calls

(***************************************************************************)
(* Strings as character sequences.                                         *)
(***************************************************************************)
Undefined == <<"undefined">>
EmptyStr == <<>>
Whitespace == {" ", "\n", "\t"}

\* a JavaScript value used as a condition: undefined and '' are falsy
Truthy(s) == s # Undefined /\ s # EmptyStr

RECURSIVE TrimStart(_)
TrimStart(s) ==
    IF s = <<>> THEN <<>>
    ELSE IF Head(s) \in Whitespace THEN TrimStart(Tail(s)) ELSE s

RECURSIVE TrimEnd(_)
TrimEnd(s) ==
    IF s = <<>> THEN <<>>
    ELSE IF s[Len(s)] \in Whitespace THEN TrimEnd(SubSeq(s, 1, Len(s) - 1)) ELSE s

\* String.prototype.trim
Trim(s) == TrimEnd(TrimStart(s))

\* the characters activity ids are made of, in collation order
IdAlphabet == <<"0", "1", "2", "3", "4", "5", "6", "7", "8", "9">>
CharRank(c) == CHOOSE i \in 1..Len(IdAlphabet) : IdAlphabet[i] = c

\* a.localeCompare(b) on such strings: -1, 0 or 1
RECURSIVE LocaleCompare(_, _)
LocaleCompare(a, b) ==
    IF a = <<>> /\ b = <<>> THEN 0
    ELSE IF a = <<>> THEN -1
    ELSE IF b = <<>> THEN 1
    ELSE IF CharRank(Head(a)) < CharRank(Head(b)) THEN -1
    ELSE IF CharRank(Head(a)) > CharRank(Head(b)) THEN 1
    ELSE LocaleCompare(Tail(a), Tail(b))

(***************************************************************************)
(* Activities of the Direct Line log.  timestamp is the parsed time in     *)
(* 1..MaxTs, NoTimestamp when the field is absent, InvalidTimestamp when   *)
(* it is a string Date cannot parse (getTime() is NaN).  attachments is    *)
(* the length of the attachments array.                                    *)
(***************************************************************************)
NoTimestamp == 0
InvalidTimestamp == -1

KnownBotId == "comm-cba1-conci-retailai7v5b1-bot"
\* from.id.includes('bot') over the from ids of the model
IdsContainingBot == {KnownBotId, "my-bot-7"}

FromBotRole   == [role |-> "bot", id |-> "", name |-> ""]
FromKnownId   == [role |-> "", id |-> KnownBotId, name |-> ""]
FromBotLikeId == [role |-> "", id |-> "my-bot-7", name |-> ""]
FromConcierge == [role |-> "", id |-> "", name |-> "Concierge"]
FromUser      == [role |-> "user", id |-> "user1", name |-> "Guest"]
FromAbsent    == [role |-> "", id |-> "", name |-> ""]

Activity(ty, tx, ts, i, f, n) ==
    [type |-> ty, text |-> tx, timestamp |-> ts, id |-> i, from |-> f,
     attachments |-> n]

\* the bot classifier of getLatestBotMessage
IsBot(from) ==
    \/ from.role = "bot"
    \/ from.id = KnownBotId
    \/ (from.id # "" /\ from.id \in IdsContainingBot)
    \/ from.name = "Concierge"

\* the filter callback of getLatestBotMessage
Retained(a) ==
    LET isMessage == a.type = "message"
        hasText == Truthy(a.text) /\ Len(Trim(a.text)) > 0
        hasAttachments == a.attachments > 0
    IN  /\ isMessage
        /\ (hasText \/ hasAttachments)
        /\ IsBot(a.from)

Sign(n) == IF n < 0 THEN -1 ELSE IF n > 0 THEN 1 ELSE 0

\* the sort callback of getLatestBotMessage, as the sign sort() reads from
\* it: negative puts a first.  A NaN result is read as +0.
CompareActivities(a, b) ==
    IF a.timestamp # NoTimestamp /\ b.timestamp # NoTimestamp
    THEN IF a.timestamp = InvalidTimestamp \/ b.timestamp = InvalidTimestamp
         THEN 0
         ELSE Sign(b.timestamp - a.timestamp)
    ELSE IF Truthy(a.id) /\ Truthy(b.id)
    THEN LocaleCompare(b.id, a.id)
    ELSE 0

\* Array.prototype.sort requires a consistent comparator: a strict weak order
ConsistentOn(s) ==
    \A i, j, k \in 1..Len(s) :
        /\ CompareActivities(s[i], s[j]) = -CompareActivities(s[j], s[i])
        /\ (CompareActivities(s[i], s[j]) < 0 /\ CompareActivities(s[j], s[k]) < 0
                => CompareActivities(s[i], s[k]) < 0)
        /\ (CompareActivities(s[i], s[j]) = 0 /\ CompareActivities(s[j], s[k]) = 0
                => CompareActivities(s[i], s[k]) = 0)

IndexOrders(n) ==
    {p \in [1..n -> 1..n] : \A i, j \in 1..n : i # j => p[i] # p[j]}

\* Array.prototype.sort with the callback above: the stable order when the
\* comparator is consistent on the array, else an implementation-defined
\* order (any permutation).
SortOutcomes(s) ==
    LET n == Len(s)
        ordered(p) ==
            \A i, j \in 1..n : i < j =>
                \/ CompareActivities(s[p[i]], s[p[j]]) < 0
                \/ (CompareActivities(s[p[i]], s[p[j]]) = 0 /\ p[i] < p[j])
    IN  {[i \in 1..n |-> s[p[i]]] :
            p \in {q \in IndexOrders(n) : ConsistentOn(s) => ordered(q)}}

NullResult  == [kind |-> "null"]
ThrowResult == [kind |-> "throw"]
BotMessage(latest) ==
    [kind |-> "message",
     text |-> IF Truthy(latest.text) THEN Trim(latest.text) ELSE EmptyStr,
     id |-> latest.id,
     timestamp |-> latest.timestamp,
     attachments |-> latest.attachments,
     activity |-> latest]

\* getLatestBotMessage(activitiesData): the results it can produce.  The
\* logging loop over the sorted array reads activity.text.substring, which
\* throws a TypeError for a retained activity without text.
getLatestBotMessage(data) ==
    IF ~data.hasActivities THEN {NullResult}
    ELSE LET botActivities == SelectSeq(data.activities, Retained)
         IN  IF \E i \in 1..Len(botActivities) : botActivities[i].text = Undefined
             THEN {ThrowResult}
             ELSE IF botActivities = <<>> THEN {NullResult}
             ELSE {BotMessage(s[1]) : s \in SortOutcomes(botActivities)}

(***************************************************************************)
(* The DOM source (useChatbotMessages): constants and idle state.          *)
(***************************************************************************)
NoTimer == 0
STABILIZATION_DELAY == 800
MIN_STABILIZATION_COUNT == 1
CheckInterval == 500
RetryDelay == 1000
SameMessageWindow == 5000
MinElementText == 5
MinMessageText == 10
MinStableLength == 5

DomIdle ==
    /\ lastProcessedText = EmptyStr
    /\ lastProcessedTime = 0
    /\ messageStabilizationTimeout = NoTimer
    /\ lastSeenText = EmptyStr
    /\ stabilizationCount = 0
    /\ staleTimers = {}
    /\ observing = FALSE
    /\ intervalId = NoTimer
    /\ startTimers = <<>>
    /\ cleanedUp = FALSE
    /\ now = MountTime
    /\ containerPresent = FALSE
    /\ typingVisible = FALSE
    /\ scenario = 1
    /\ step = 0
    /\ lastChangeAt = MountTime
    /\ slowChange = FALSE
    /\ typingSeen = FALSE
    /\ checkAfterCleanup = FALSE
    /\ domCalls = <<>>

(***************************************************************************)
(* The speech-to-text service: constants and idle state.                   *)
(***************************************************************************)
SILENCE_TIMEOUT_MS == 2000
EndCallDelay == 100

\* the clock of SpecStt stops after two silence periods
MaxSttTime == 2 * SILENCE_TIMEOUT_MS

\* the module before any of its functions is called
SttIdle ==
    /\ recognition = "null"
    /\ sttSupported = TRUE
    /\ isListening = FALSE
    /\ silenceTimeout = NoTimer
    /\ lastTranscript = EmptyStr
    /\ accumulatedText = EmptyStr
    /\ silenceTimers = {}
    /\ endTimers = <<>>
    /\ sttNow = 0
    /\ sttResults = 0
    /\ finalized = <<>>
    /\ lastResultAt = 0
    /\ cancelled = FALSE
    /\ sttErrorCalls = 0
    /\ sttCalls = <<>>

\* the text-to-speech part before speakText is called
TtsIdle ==
    /\ currentUtterance = 0
    /\ isSpeaking = FALSE
    /\ ttsQueue = <<>>
    /\ ttsStarted = FALSE
    /\ ttsCancelled = {}
    /\ ttsMade = 0

NullValue == <<"null">>
\* listener callbacks; "u" calls the unsubscribe function of "g" when it is
\* invoked, "f" and "g" leave the monitor alone
Callbacks == {"f", "g", "u"}
UnsubscribedBy(cb) == IF cb = "u" THEN "g" ELSE "none"

\* the network monitor before anything is called
NetIdle ==
    /\ detectedConversationId = NullValue
    /\ detectedBearerToken = NullValue
    /\ credentialsListeners = <<>>
    /\ netMonitoring = FALSE
    /\ netSubscription = [cb \in Callbacks |-> "none"]
    /\ netCalls = <<>>
    /\ netHandler = "none"

\* useTypingDetection before it is mounted
TypingIdle ==
    /\ isTyping = FALSE
    /\ typingTimeoutRef = 0
    /\ typingInterval = 0
    /\ typingRetry = 0
    /\ typingListening = FALSE
    /\ typingMounted = FALSE
    /\ webchatLoaded = FALSE
    /\ inputValue = EmptyStr
    /\ indicatorVisible = FALSE
    /\ typingNow = 0
    /\ lastInputAt = -1

\* WaveformAnimation before it is mounted
WaveIdle ==
    /\ isActive = FALSE
    /\ isIdle = FALSE
    /\ waveMounted = FALSE
    /\ animationFrameRef = 0
    /\ waveHasCleanup = FALSE
    /\ pendingFrames = {}
    /\ framesRequested = 0
    /\ waveCancelled = {}

AuxIdle == SttIdle /\ TtsIdle /\ NetIdle /\ TypingIdle /\ WaveIdle

(***************************************************************************)
(* SpecSel: getLatestBotMessage applied to every log of at most MaxLog     *)
(* activities drawn from SelPool.                                          *)
(***************************************************************************)
Hi == <<"h", "i">>
ActivityIds == {Undefined, <<"1">>, <<"2">>}

SelPool ==
    {Activity("message", Hi, ts, i, FromBotRole, 0) :
        ts \in NoTimestamp..MaxTs, i \in ActivityIds}
    \cup {Activity("message", Hi, InvalidTimestamp, <<"1">>, FromBotRole, 0),
          Activity("message", Hi, MaxTs, <<"2">>, FromUser, 0),
          Activity("message", Hi, MaxTs, <<"2">>, FromAbsent, 0),
          Activity("typing", Undefined, MaxTs, <<"2">>, FromBotRole, 0),
          Activity("message", <<" ">>, MaxTs, <<"2">>, FromBotRole, 0),
          Activity("message", <<" ">>, 1, <<"2">>, FromConcierge, 1),
          Activity("message", Undefined, 1, <<"1">>, FromKnownId, 1),
          Activity("message", <<" ", "h", "i", " ">>, 1, <<"1">>, FromBotLikeId, 0)}

SeqsUpTo(S, n) == UNION {[1..k -> S] : k \in 0..n}

NotCalled == [kind |-> "notcalled"]
NoResponse == [kind |-> "none"]

SvcIdle ==
    /\ fetchResponse = NoResponse
    /\ fetchResult = NotCalled

\* the hook before any of its functions is called
HookIdle ==
    /\ isPolling = FALSE
    /\ error = "null"
    /\ lastMessageRef = EmptyStr
    /\ lastActivityIdRef = EmptyStr
    /\ pollingIntervalRef = "null"
    /\ isActiveRef = FALSE
    /\ serverLog = <<>>
    /\ inflight = <<>>
    /\ calls = <<>>
    /\ prevSel = [result |-> NullResult, repeated |-> FALSE]
    /\ wantPolling = FALSE
    /\ pollFailed = FALSE
    /\ idleStop = FALSE
    /\ armedIntervals = 0
    /\ startReturnedEarly = FALSE
    /\ tickIssued = FALSE

PollIdle ==
    /\ conversationId = EmptyStr
    /\ bearerToken = EmptyStr
    /\ HookIdle

InitSel ==
    /\ activitiesData \in
          {[hasActivities |-> TRUE, activities |-> l] : l \in SeqsUpTo(SelPool, MaxLog)}
          \cup {[hasActivities |-> FALSE, activities |-> <<>>]}
    /\ selResult = NotCalled
    /\ SvcIdle
    /\ PollIdle
    /\ DomIdle
    /\ AuxIdle

SelectLatest ==
    /\ selResult = NotCalled
    /\ selResult' \in getLatestBotMessage(activitiesData)
    /\ UNCHANGED <<activitiesData, fetchResponse, fetchResult, auxVars,
                   pollVars, domVars>>

NextSel == SelectLatest

SpecSel == InitSel /\ [][NextSel]_vars

\* the bot-authored message activities of the log handed in
Candidates == {activitiesData.activities[i] : i \in
                 {k \in 1..Len(activitiesData.activities) :
                     Retained(activitiesData.activities[k])}}

HasParsedTime(a) == a.timestamp # NoTimestamp /\ a.timestamp # InvalidTimestamp

\* c is to be preferred to r: a later parsed timestamp, or, the timestamps
\* being equal or one of them missing, the lexically greater id
PreferredTo(c, r) ==
    IF HasParsedTime(c) /\ HasParsedTime(r) /\ c.timestamp # r.timestamp
    THEN c.timestamp > r.timestamp
    ELSE Truthy(c.id) /\ Truthy(r.id) /\ LocaleCompare(c.id, r.id) > 0

\* C1: for every log, getLatestBotMessage returns the bot message with the
\* latest parsed timestamp, and of two candidates with equal timestamps, or
\* of which one has no timestamp, the one with the lexically greater id: no
\* other candidate is to be preferred to the one returned.  Stated for the
\* logs whose timestamps, where present, all parse.
C1_LatestThenGreaterId ==
    (selResult.kind = "message"
        /\ \A c \in Candidates : c.timestamp # InvalidTimestamp) =>
        /\ selResult.activity \in Candidates
        /\ \A c \in Candidates : ~PreferredTo(c, selResult.activity)

(***************************************************************************)
(* The polling source: getBotActivities and useDirectLineBotMessages.      *)
(***************************************************************************)
Conv1 == <<"c", "1">>
Token1 == <<"t", "1">>
Yo == <<"y", "o">>

\* what the remote log grows by: two bot messages, a user message, and a
\* bot card without text
PollPool ==
    {Activity("message", Hi, 1, <<"1">>, FromBotRole, 0),
     Activity("message", Yo, 2, <<"2">>, FromBotRole, 0),
     Activity("message", Hi, 2, <<"2">>, FromUser, 0),
     Activity("message", Undefined, 2, <<"2">>, FromConcierge, 1)}

\* the responses fetch() can settle with: a rejection (network failure) or
\* an HTTP response whose body carries bodyMessage (data.error?.message ||
\* data.message, "" when absent) and, on success, the log
Rejected == [kind |-> "rejected", message |-> "Failed to fetch"]
HttpResponse(status, bodyMessage, activities) ==
    [kind |-> "response", status |-> status, ok |-> (status = 200),
     bodyIsNull |-> FALSE, bodyMessage |-> bodyMessage,
     data |-> [hasActivities |-> TRUE, activities |-> activities]]
\* an HTTP response whose body is the JSON text null: response.json()
\* resolves with null
NullBodyResponse(status) ==
    [kind |-> "response", status |-> status, ok |-> (status = 200),
     bodyIsNull |-> TRUE, bodyMessage |-> "",
     data |-> [hasActivities |-> FALSE, activities |-> <<>>]]

Thrown(message) == [threw |-> TRUE, message |-> message]
Returned(data) == [threw |-> FALSE, data |-> data]

\* the reason getBotActivities throws with on a non-success response
ErrorMessage(status, bodyMessage) ==
    IF status = 401
    THEN "Unauthorized: Invalid Bearer Token. Please check your token."
    ELSE IF status = 404
    THEN "Conversation not found: Invalid Conversation ID."
    ELSE IF status = 403
    THEN "Forbidden: Token may not have access to this conversation."
    ELSE IF bodyMessage # "" THEN bodyMessage
    ELSE "API error: " \o ToString(status)

\* the TypeErrors of data.error (line 37) and data.activities (line 52)
\* when data is null
NullErrorMessage == "Cannot read properties of null (reading 'error')"
NullActivitiesMessage == "Cannot read properties of null (reading 'activities')"

\* the reason getBotActivities fails with before it calls fetch
CredentialsRequired == "Conversation ID and Bearer Token are required"

\* getBotActivities(conversationId, bearerToken), given what fetch settles with
getBotActivities(conv, token, response) ==
    IF ~Truthy(conv) \/ ~Truthy(token)
    THEN Thrown(CredentialsRequired)
    ELSE IF response.kind = "rejected" THEN Thrown(response.message)
    ELSE IF response.bodyIsNull
    THEN Thrown(IF response.ok THEN NullActivitiesMessage ELSE NullErrorMessage)
    ELSE IF ~response.ok
    THEN Thrown(ErrorMessage(response.status, response.bodyMessage))
    ELSE Returned(response.data)

TypeErrorMessage == "Cannot read properties of undefined (reading 'substring')"

\* isNewMessage of pollBotMessages
IsNewMessageWrongRef(latestActivityId, latestMessage) ==
    latestActivityId # lastMessageRef \/ latestMessage # lastMessageRef

IsNewMessage(latestActivityId, latestMessage) ==
    latestActivityId # lastActivityIdRef \/ latestMessage # lastMessageRef

\* the catch block of pollBotMessages
CatchStopsPolling(message) ==
    /\ error' = message
    /\ pollingIntervalRef' = "null"
    /\ isActiveRef' = FALSE
    /\ isPolling' = FALSE
    /\ armedIntervals' = 0
    /\ UNCHANGED <<lastMessageRef, lastActivityIdRef, calls>>

CatchPollError(message) ==
    /\ error' = message
    /\ UNCHANGED <<isPolling, lastMessageRef, lastActivityIdRef,
                   pollingIntervalRef, isActiveRef, calls, armedIntervals>>

\* the body of pollBotMessages after the await, for a selected message.
\* An entry of calls records the two refs as they are when onBotMessage
\* is invoked (seenMessageRef, seenActivityIdRef).
ProcessLatestCallsBackFirst(latestMessageData) ==
    LET latestMessage == latestMessageData.text
        latestActivityId == IF Truthy(latestMessageData.id)
                            THEN latestMessageData.id ELSE latestMessage
    IN  IF IsNewMessage(latestActivityId, latestMessage)
        THEN /\ calls' = Append(calls, [text |-> latestMessage,
                                        id |-> latestActivityId,
                                        afterError |-> error # "null",
                                        seenMessageRef |-> lastMessageRef,
                                        seenActivityIdRef |-> lastActivityIdRef])
             /\ lastMessageRef' = latestMessage
             /\ lastActivityIdRef' = latestActivityId
        ELSE UNCHANGED <<lastMessageRef, lastActivityIdRef, calls>>

ProcessLatest(latestMessageData) ==
    LET latestMessage == latestMessageData.text
        latestActivityId == IF Truthy(latestMessageData.id)
                            THEN latestMessageData.id ELSE latestMessage
    IN  IF IsNewMessage(latestActivityId, latestMessage)
        THEN /\ lastMessageRef' = latestMessage
             /\ lastActivityIdRef' = latestActivityId
             /\ calls' = Append(calls, [text |-> latestMessage,
                                        id |-> latestActivityId,
                                        afterError |-> error # "null",
                                        seenMessageRef |-> lastMessageRef',
                                        seenActivityIdRef |-> lastActivityIdRef'])
        ELSE UNCHANGED <<lastMessageRef, lastActivityIdRef, calls>>

\* the id (or, when it is absent, the trimmed text) and the text two polls
\* selected are the same
DedupId(m) == IF Truthy(m.id) THEN m.id ELSE m.text
SamePair(a, b) ==
    /\ a.kind = "message"
    /\ b.kind = "message"
    /\ DedupId(a) = DedupId(b)
    /\ a.text = b.text

Remove(s, i) == SubSeq(s, 1, i - 1) \o SubSeq(s, i + 1, Len(s))

\* pollBotMessages up to its await: the request goes out and the service
\* reads the log as it is now; byTick tells the call made by the interval
\* from the one startPolling makes itself
IssueFetch(byTick) ==
    /\ inflight' = Append(inflight, [snapshot |-> Len(serverLog)])
    /\ tickIssued' = byTick

CanIssue == Len(inflight) < MaxInflight /\ Len(calls) < MaxCalls

InitPoll ==
    /\ activitiesData = [hasActivities |-> FALSE, activities |-> <<>>]
    /\ selResult = NotCalled
    /\ SvcIdle
    /\ conversationId \in {EmptyStr, Undefined, Conv1}
    /\ bearerToken \in {EmptyStr, Undefined, Token1}
    /\ isPolling = FALSE
    /\ error = "null"
    /\ lastMessageRef = EmptyStr
    /\ lastActivityIdRef = EmptyStr
    /\ pollingIntervalRef = "null"
    /\ isActiveRef = FALSE
    /\ serverLog = <<>>
    /\ inflight = <<>>
    /\ calls = <<>>
    /\ prevSel = [result |-> NullResult, repeated |-> FALSE]
    /\ wantPolling = FALSE
    /\ pollFailed = FALSE
    /\ idleStop = FALSE
    /\ armedIntervals = 0
    /\ startReturnedEarly = FALSE
    /\ tickIssued = FALSE
    /\ DomIdle
    /\ AuxIdle

\* startPolling()
\* a startPolling() that returns at one of its two guards
ReturnEarly ==
    /\ startReturnedEarly' = TRUE
    /\ tickIssued' = FALSE
    /\ UNCHANGED <<selVars, domVars, conversationId, bearerToken, hookVars,
                   serverLog, inflight, calls, prevSel, wantPolling, pollFailed,
                   idleStop, armedIntervals>>

\* a startPolling() without the isActiveRef guard
StartPollingWithoutActiveGuard ==
    IF ~Truthy(conversationId) \/ ~Truthy(bearerToken)
    THEN ReturnEarly
    ELSE /\ CanIssue
         /\ isActiveRef' = TRUE
         /\ isPolling' = TRUE
         /\ error' = "null"
         /\ IssueFetch(FALSE)
         /\ pollingIntervalRef' = "armed"
         /\ armedIntervals' = armedIntervals + 1
         /\ startReturnedEarly' = FALSE
         /\ wantPolling' = TRUE
         /\ pollFailed' = FALSE
         /\ UNCHANGED <<selVars, domVars, conversationId, bearerToken, lastMessageRef,
                        lastActivityIdRef, serverLog, calls, prevSel, idleStop>>

\* a startPolling() that forgets what was delivered last
StartPollingResetsDedup ==
    IF ~Truthy(conversationId) \/ ~Truthy(bearerToken)
    THEN ReturnEarly
    ELSE IF isActiveRef
    THEN ReturnEarly
    ELSE /\ CanIssue
         /\ isActiveRef' = TRUE
         /\ isPolling' = TRUE
         /\ error' = "null"
         /\ IssueFetch(FALSE)
         /\ pollingIntervalRef' = "armed"
         /\ armedIntervals' = armedIntervals + 1
         /\ startReturnedEarly' = FALSE
         /\ wantPolling' = TRUE
         /\ pollFailed' = FALSE
         /\ lastMessageRef' = EmptyStr
         /\ lastActivityIdRef' = EmptyStr
         /\ UNCHANGED <<selVars, domVars, conversationId, bearerToken, serverLog,
                        calls, prevSel, idleStop>>

\* a startPolling() without the credentials guard
StartPollingWithoutCredentialsGuard ==
    IF isActiveRef
    THEN ReturnEarly
    ELSE /\ CanIssue
         /\ isActiveRef' = TRUE
         /\ isPolling' = TRUE
         /\ error' = "null"
         /\ IssueFetch(FALSE)
         /\ pollingIntervalRef' = "armed"
         /\ armedIntervals' = armedIntervals + 1
         /\ startReturnedEarly' = FALSE
         /\ wantPolling' = TRUE
         /\ pollFailed' = FALSE
         /\ UNCHANGED <<selVars, domVars, conversationId, bearerToken, lastMessageRef,
                        lastActivityIdRef, serverLog, calls, prevSel, idleStop>>

StartPolling ==
    IF ~Truthy(conversationId) \/ ~Truthy(bearerToken)
    THEN ReturnEarly
    ELSE IF isActiveRef
    THEN ReturnEarly
    ELSE /\ CanIssue
         /\ isActiveRef' = TRUE
         /\ isPolling' = TRUE
         /\ error' = "null"
         /\ IssueFetch(FALSE)
         /\ pollingIntervalRef' = "armed"
         /\ armedIntervals' = armedIntervals + 1
         /\ startReturnedEarly' = FALSE
         /\ wantPolling' = TRUE
         /\ pollFailed' = FALSE
         /\ UNCHANGED <<selVars, domVars, conversationId, bearerToken, lastMessageRef,
                        lastActivityIdRef, serverLog, calls, prevSel, idleStop>>

\* the interval armed by startPolling fires: pollBotMessages up to its await
PollTick ==
    /\ armedIntervals > 0
    /\ CanIssue
    /\ IssueFetch(TRUE)
    /\ startReturnedEarly' = FALSE
    /\ UNCHANGED <<selVars, domVars, conversationId, bearerToken, hookVars, serverLog,
                   calls, prevSel, wantPolling, pollFailed, idleStop,
                   armedIntervals>>

\* the i-th fetch in flight settles with a success response:
\* pollBotMessages from its await on
FetchResolves(i) ==
    /\ i \in 1..Len(inflight)
    /\ inflight' = Remove(inflight, i)
    /\ LET log == SubSeq(serverLog, 1, inflight[i].snapshot)
           got == getBotActivities(conversationId, bearerToken,
                                   HttpResponse(200, "", log))
       IN  \E latestMessageData \in getLatestBotMessage(got.data) :
             /\ prevSel' = [result |-> latestMessageData,
                            repeated |-> SamePair(prevSel.result, latestMessageData)]
             /\ IF latestMessageData.kind = "throw"
                THEN /\ CatchPollError(TypeErrorMessage)
                     /\ pollFailed' = TRUE
                ELSE IF latestMessageData.kind = "null"
                THEN UNCHANGED <<hookVars, calls, pollFailed, armedIntervals>>
                ELSE /\ ProcessLatest(latestMessageData)
                     /\ UNCHANGED <<isPolling, error, pollingIntervalRef,
                                    isActiveRef, pollFailed, armedIntervals>>
    /\ startReturnedEarly' = FALSE
    /\ tickIssued' = FALSE
    /\ UNCHANGED <<selVars, domVars, conversationId, bearerToken, serverLog, wantPolling,
                   idleStop>>

FailPool == {Rejected, HttpResponse(401, "", <<>>), HttpResponse(500, "boom", <<>>)}

\* the i-th fetch in flight fails: getBotActivities throws and the catch
\* block of pollBotMessages runs
FetchFails(i) ==
    /\ i \in 1..Len(inflight)
    /\ inflight' = Remove(inflight, i)
    /\ \E response \in FailPool :
          CatchPollError(getBotActivities(conversationId, bearerToken,
                                          response).message)
    /\ prevSel' = [result |-> [kind |-> "failed"], repeated |-> FALSE]
    /\ pollFailed' = TRUE
    /\ startReturnedEarly' = FALSE
    /\ tickIssued' = FALSE
    /\ UNCHANGED <<selVars, domVars, conversationId, bearerToken, serverLog, wantPolling,
                   idleStop>>

\* a stopPolling that leaves the interval running
StopPollingLeavesInterval ==
    /\ pollingIntervalRef' = "null"
    /\ isActiveRef' = FALSE
    /\ isPolling' = FALSE
    /\ wantPolling' = FALSE
    /\ idleStop' = (idleStop \/ ~isPolling)
    /\ startReturnedEarly' = FALSE
    /\ tickIssued' = FALSE
    /\ UNCHANGED <<selVars, domVars, conversationId, bearerToken, error, lastMessageRef,
                   lastActivityIdRef, serverLog, inflight, calls, prevSel,
                   pollFailed, armedIntervals>>

\* stopPolling()
StopPollingResetsDedup ==
    /\ pollingIntervalRef' = "null"
    /\ isActiveRef' = FALSE
    /\ isPolling' = FALSE
    /\ wantPolling' = FALSE
    /\ idleStop' = (idleStop \/ ~isPolling)
    /\ armedIntervals' = IF pollingIntervalRef # "null"
                         THEN armedIntervals - 1 ELSE armedIntervals
    /\ startReturnedEarly' = FALSE
    /\ tickIssued' = FALSE
    /\ lastMessageRef' = EmptyStr
    /\ lastActivityIdRef' = EmptyStr
    /\ UNCHANGED <<selVars, domVars, conversationId, bearerToken, error, serverLog,
                   inflight, calls, prevSel, pollFailed>>

StopPolling ==
    /\ pollingIntervalRef' = "null"
    /\ isActiveRef' = FALSE
    /\ isPolling' = FALSE
    /\ wantPolling' = FALSE
    /\ idleStop' = (idleStop \/ ~isPolling)
    /\ armedIntervals' = IF pollingIntervalRef # "null"
                         THEN armedIntervals - 1 ELSE armedIntervals
    /\ startReturnedEarly' = FALSE
    /\ tickIssued' = FALSE
    /\ UNCHANGED <<selVars, domVars, conversationId, bearerToken, error, lastMessageRef,
                   lastActivityIdRef, serverLog, inflight, calls, prevSel,
                   pollFailed>>

\* the conversation goes on: the remote log grows by one activity
LogGrows ==
    /\ Len(serverLog) < MaxServerLog
    /\ \E a \in PollPool :
          /\ \A k \in 1..Len(serverLog) : serverLog[k] # a
          /\ serverLog' = Append(serverLog, a)
    /\ startReturnedEarly' = FALSE
    /\ tickIssued' = FALSE
    /\ UNCHANGED <<selVars, domVars, conversationId, bearerToken, hookVars, inflight,
                   calls, prevSel, wantPolling, pollFailed, idleStop,
                   armedIntervals>>

NextPoll ==
    \/ StartPolling
    \/ StopPolling
    \/ PollTick
    \/ \E i \in 1..MaxInflight : FetchResolves(i)
    \/ \E i \in 1..MaxInflight : FetchFails(i)
    \/ LogGrows

SpecPoll == InitPoll /\ [][NextPoll]_vars

(***************************************************************************)
(* Claims about the polling source.                                        *)
(***************************************************************************)
PollCompletes == Len(inflight') < Len(inflight)

\* C2: when two consecutive completed polls select a latest bot message
\* with the same id (or, without id, the same trimmed text) and the same
\* text, the second poll does not invoke onBotMessage.
C2_SamePairNotRedelivered ==
    [][(PollCompletes /\ SamePair(prevSel.result, prevSel'.result))
            => calls' = calls]_vars

\* two consecutive polls selected the same pair and it was delivered once
C2_Witness ==
    /\ prevSel.repeated
    /\ Len(calls) = 1
    /\ calls[1].text = prevSel.result.text

\* C3: whatever the interleaving of ticks and fetch completions, no bot
\* message (id and text) is passed to onBotMessage more than once.
C3_AtMostOncePerMessage ==
    \A i, j \in 1..Len(calls) :
        i < j => ~(calls[i].id = calls[j].id /\ calls[i].text = calls[j].text)

\* C7: failed polls never stop the loop.  While no stopPolling followed the
\* start, the source is polling with its interval armed and the next tick
\* can issue a fetch, a failure since the start is shown in error, and every
\* completed poll that selects a message differing from the dedup state
\* delivers it.
C7_StillPolling ==
    wantPolling =>
        /\ isActiveRef
        /\ isPolling
        /\ pollingIntervalRef = "armed"
        /\ (CanIssue => ENABLED PollTick)
        /\ (pollFailed => error # "null")

C7_NewMessageDelivered ==
    (/\ PollCompletes
     /\ prevSel'.result.kind = "message"
     /\ (DedupId(prevSel'.result) # lastActivityIdRef
            \/ prevSel'.result.text # lastMessageRef))
        => /\ Len(calls') = Len(calls) + 1
           /\ calls'[Len(calls')].text = prevSel'.result.text

C7_FailureKeepsPolling == [](C7_StillPolling) /\ [][C7_NewMessageDelivered]_vars

\* a message was delivered by a poll that followed a failed one, and the
\* source is still polling
C7_Witness ==
    /\ wantPolling
    /\ pollFailed
    /\ pollingIntervalRef = "armed"
    /\ \E k \in 1..Len(calls) : calls[k].afterError

\* C8: once stopPolling has returned (and until a later start), no step
\* invokes onBotMessage or changes the dedup state.
C8_NoDeliveryAfterStop ==
    [][~wantPolling =>
          /\ calls' = calls
          /\ lastMessageRef' = lastMessageRef
          /\ lastActivityIdRef' = lastActivityIdRef]_vars

\* C10: stopPolling leaves the source not polling with no interval armed;
\* called on a source that is not polling it changes nothing (dedup state
\* and error included), so a second call in a row changes nothing.
C10_StopIsIdempotent ==
    [][StopPolling =>
          /\ ~isPolling'
          /\ ~isActiveRef'
          /\ pollingIntervalRef' = "null"
          /\ (~isPolling => UNCHANGED <<hookVars, serverLog, inflight, calls>>)]_vars

\* stopPolling was called on a stopped source that had delivered a message
\* and reported an error
C10_Witness ==
    /\ idleStop
    /\ ~isPolling
    /\ lastMessageRef # EmptyStr
    /\ error # "null"

(***************************************************************************)
(* The DOM source: texts.  A character outside the basic plane is written *)
(* as its code point ("U+1F389") and counts two UTF-16 units in .length.   *)
(***************************************************************************)
THel ==
    <<"H", "e", "l">>
THello ==
    <<"H", "e", "l", "l", "o">>
THelloWor ==
    <<"H", "e", "l", "l", "o", " ", "w", "o", "r">>
THelloWorld ==
    <<"H", "e", "l", "l", "o", " ", "w", "o", "r", "l", "d">>
THelloWorldMore ==
    <<"H", "e", "l", "l", "o", " ", "w", "o", "r", "l", "d", ",", " ",
      "w", "e", "l", "c", "o", "m", "e">>
THiThere ==
    <<"H", "i", " ", "t", "h", "e", "r", "e">>
TGreatChoice ==
    <<"G", "r", "e", "a", "t", " ", "c", "h", "o", "i", "c", "e", "!",
      " ", "U+1F389", " ", "L", "e", "t", "'", "s", " ", "p", "r",
      "o", "c", "e", "e", "d">>
TWelcome ==
    <<"W", "e", "l", "c", "o", "m", "e", " ", "t", "o", " ", "t", "h",
      "e", " ", "s", "a", "l", "o", "n">>
TWelcomeEmoji == TWelcome \o <<" ", "U+1F389">>
TUserAsk ==
    <<"I", " ", "w", "a", "n", "t", " ", "a", " ", "w", "a", "t", "c", "h">>
TTyping ==
    <<"t", "y", "p", "i", "n", "g", ".", ".", ".">>
TLoading ==
    <<"l", "o", "a", "d", "i", "n", "g", ".", ".", ".">>
TLoadingShown ==
    <<"L", "o", "a", "d", "i", "n", "g", ".", ".", ".">>
TClickToSend ==
    <<"c", "l", "i", "c", "k", " ", "t", "o", " ", "s", "e", "n", "d">>

\* the characters of the model in the ranges the clean-up removes:
\* U+1F300-1F9FF, U+2600-26FF, U+2700-27BF, U+1FA00-1FAFF
EmojiChars == {"U+1F389", "U+2600", "U+2728", "U+1FA77"}
AstralChars == {"U+1F389", "U+1FA77"}

RECURSIVE JsLength(_)
\* String.prototype.length
JsLength(s) ==
    IF s = <<>> THEN 0
    ELSE (IF Head(s) \in AstralChars THEN 2 ELSE 1) + JsLength(Tail(s))

UpperCase == <<"A", "B", "C", "D", "E", "F", "G", "H", "I", "J", "K", "L", "M",
               "N", "O", "P", "Q", "R", "S", "T", "U", "V", "W", "X", "Y", "Z">>
LowerCase == <<"a", "b", "c", "d", "e", "f", "g", "h", "i", "j", "k", "l", "m",
               "n", "o", "p", "q", "r", "s", "t", "u", "v", "w", "x", "y", "z">>

\* the lower-case letter of each upper-case letter
LowerOf ==
    [c \in {UpperCase[k] : k \in 1..Len(UpperCase)} |->
        LowerCase[CHOOSE k \in 1..Len(UpperCase) : UpperCase[k] = c]]

\* String.prototype.toLowerCase
ToLowerCase(s) ==
    [i \in 1..Len(s) |-> IF s[i] \in DOMAIN LowerOf THEN LowerOf[s[i]] ELSE s[i]]

\* String.prototype.includes
Includes(s, sub) ==
    \E i \in 1..(Len(s) - Len(sub) + 1) : SubSeq(s, i, i + Len(sub) - 1) = sub

\* .replace(/[...]/gu, '') for the four emoji ranges
StripEmoji(s) == SelectSeq(s, LAMBDA c : c \notin EmojiChars)

RECURSIVE CollapseWhitespace(_)
\* .replace(/\s+/g, ' ')
CollapseWhitespace(s) ==
    IF s = <<>> THEN <<>>
    ELSE IF Head(s) \in Whitespace
    THEN <<" ">> \o CollapseWhitespace(TrimStart(s))
    ELSE <<Head(s)>> \o CollapseWhitespace(Tail(s))

\* a clean-up that leaves runs of whitespace as they are
CleanTextKeepsWhitespace(s) == Trim(StripEmoji(s))

\* cleanText of checkAndProcessStableMessage
CleanText(s) == Trim(CollapseWhitespace(StripEmoji(s)))

(***************************************************************************)
(* The DOM source: the page.  The container's message elements, in the     *)
(* order extractBotMessages meets them; user tells whether the element or  *)
(* an ancestor carries a user / sender / my-message class.                 *)
(***************************************************************************)
BotEl(t) == [text |-> t, user |-> FALSE]
UserEl(t) == [text |-> t, user |-> TRUE]

\* what the widget renders, change by change
DomScripts ==
    << \* a reply typed out in four pieces
       << <<BotEl(THel)>>, <<BotEl(THello)>>, <<BotEl(THelloWor)>>,
          <<BotEl(THelloWorld)>> >>,
       \* a short reply
       << <<BotEl(THiThere)>> >>,
       \* a reply with an emoji, between line breaks
       << <<BotEl(<<"\n", " ">> \o TGreatChoice \o <<" ", "\n">>)>> >>,
       \* a reply, the user's question, a second and shorter reply
       << <<BotEl(TWelcome)>>,
          <<BotEl(TWelcome), UserEl(TUserAsk)>>,
          <<BotEl(TWelcome), UserEl(TUserAsk), BotEl(THelloWorld)>> >>,
       \* a placeholder, then a reply that goes on growing
       << <<BotEl(TLoadingShown)>>, <<BotEl(THelloWorld)>>,
          <<BotEl(THelloWorldMore)>> >>,
       \* a reply to which the widget appends an emoji
       << <<BotEl(TWelcome)>>, <<BotEl(TWelcomeEmoji)>> >> >>

DomAt(sc, st) == IF st = 0 THEN <<>> ELSE DomScripts[sc][st]

\* the de-duplication by trimmed text: the first element of each text
UniqueElements(dom) ==
    LET keep == {i \in 1..Len(dom) :
                    /\ Trim(dom[i].text) # <<>>
                    /\ \A k \in 1..(i - 1) : Trim(dom[k].text) # Trim(dom[i].text)}
        idx(i) == Cardinality({k \in keep : k <= i})
    IN  [n \in 1..Cardinality(keep) |->
            dom[CHOOSE i \in keep : idx(i) = n]]

\* the map callback of extractBotMessages: the text kept, or <<>> for null
BotTextOf(el) ==
    LET text == Trim(el.text)
    IN  IF text = <<>> \/ JsLength(text) < MinElementText THEN <<>>
        ELSE IF el.user THEN <<>>
        ELSE IF \/ JsLength(text) < MinMessageText
                \/ ToLowerCase(text) = TTyping
                \/ ToLowerCase(text) = TLoading
                \/ Includes(ToLowerCase(text), TClickToSend)
        THEN <<>>
        ELSE text

\* extractBotMessages(), as the texts of the messages it returns
extractBotMessages(present, dom) ==
    IF ~present THEN <<>>
    ELSE LET els == UniqueElements(dom)
             texts == [i \in 1..Len(els) |-> BotTextOf(els[i])]
         IN  SelectSeq(texts, LAMBDA t : t # <<>>)

\* what extractBotMessages() returns on each page of each script
ExtractedAt ==
    [present \in BOOLEAN |->
        [sc \in 1..Len(DomScripts) |->
            [st \in 0..Len(DomScripts[sc]) |->
                extractBotMessages(present, DomAt(sc, st))]]]

\* an isBotTyping() that finds no indicator
NeverTyping(present, typing) == FALSE

\* isBotTyping()
isBotTyping(present, typing) == present /\ typing

(***************************************************************************)
(* The DOM source: the stability check on the closure state c at time t.   *)
(***************************************************************************)
Closure(timeout, stale) ==
    [lastSeenText |-> lastSeenText,
     stabilizationCount |-> stabilizationCount,
     messageStabilizationTimeout |-> timeout,
     staleTimers |-> stale,
     lastProcessedText |-> lastProcessedText,
     lastProcessedTime |-> lastProcessedTime,
     deliver |-> <<>>]

\* isNew of checkAndProcessStableMessage
IsNewTextAnyLaterTime(c, currentText, t) ==
    \/ currentText # c.lastProcessedText
    \/ (t - c.lastProcessedTime) > 0

IsNewText(c, currentText, t) ==
    \/ currentText # c.lastProcessedText
    \/ (t - c.lastProcessedTime) > SameMessageWindow

\* lines 329-346: the text is growing.  clearTimeout and then setTimeout:
\* the timeout cleared is no longer pending
GrowthBranchKeepsOldTimer(c, currentText, t) ==
    [c EXCEPT !.lastSeenText = currentText,
              !.stabilizationCount = 0,
              !.staleTimers = c.staleTimers \cup
                                ({c.messageStabilizationTimeout} \ {NoTimer}),
              !.messageStabilizationTimeout = t + STABILIZATION_DELAY]

GrowthBranch(c, currentText, t) ==
    [c EXCEPT !.lastSeenText = currentText,
              !.stabilizationCount = 0,
              !.messageStabilizationTimeout = t + STABILIZATION_DELAY]

\* lines 349-383: the text is the one seen last
StableBranchKeepsCount(immediate, c, currentText, t) ==
    LET count == c.stabilizationCount + 1
        cleanText == CleanText(currentText)
    IN  IF immediate \/ count >= MIN_STABILIZATION_COUNT
        THEN IF /\ IsNewText(c, currentText, t)
                /\ currentText # <<>>
                /\ cleanText # <<>>
                /\ JsLength(cleanText) > MinStableLength
             THEN [c EXCEPT !.lastProcessedText = currentText,
                            !.lastProcessedTime = t,
                            !.stabilizationCount = 0,
                            !.deliver = <<cleanText>>]
             ELSE [c EXCEPT !.stabilizationCount = count]
        ELSE [c EXCEPT !.stabilizationCount = count]

StableBranch(immediate, c, currentText, t) ==
    LET count == c.stabilizationCount + 1
        cleanText == CleanText(currentText)
    IN  IF immediate \/ count >= MIN_STABILIZATION_COUNT
        THEN IF /\ IsNewText(c, currentText, t)
                /\ currentText # <<>>
                /\ cleanText # <<>>
                /\ JsLength(cleanText) > MinStableLength
             THEN [c EXCEPT !.lastProcessedText = currentText,
                            !.lastProcessedTime = t,
                            !.stabilizationCount = 0,
                            !.deliver = <<cleanText>>]
             ELSE [c EXCEPT !.stabilizationCount = 0]
        ELSE [c EXCEPT !.stabilizationCount = count]

\* checkAndProcessStableMessage(immediate): the closure state it leaves and
\* the text it passes to onBotMessage (deliver)
checkAndProcessStableMessage(immediate, c, botMessages, typing, t) ==
    IF typing /\ ~immediate THEN c
    ELSE IF botMessages = <<>> THEN c
    ELSE
      LET currentText == botMessages[Len(botMessages)]
      IN  IF /\ currentText # c.lastSeenText
             /\ JsLength(currentText) > JsLength(c.lastSeenText)
          THEN GrowthBranch(c, currentText, t)
          ELSE IF currentText = c.lastSeenText
                  /\ JsLength(currentText) > MinStableLength
          THEN StableBranch(immediate, c, currentText, t)
          ELSE c

(***************************************************************************)
(* SpecDom: one mounted useChatbotMessages effect, the page and the clock. *)
(***************************************************************************)
\* run the check and store what it leaves; domStep is the page it reads,
\* timeout and stale the stabilization timers pending when it starts
RunCheck(immediate, domStep, timeout, stale) ==
    LET c == checkAndProcessStableMessage(
                 immediate, Closure(timeout, stale),
                 ExtractedAt[containerPresent][scenario][domStep],
                 isBotTyping(containerPresent, typingVisible), now)
    IN  /\ lastSeenText' = c.lastSeenText
        /\ stabilizationCount' = c.stabilizationCount
        /\ messageStabilizationTimeout' = c.messageStabilizationTimeout
        /\ staleTimers' = c.staleTimers
        /\ lastProcessedText' = c.lastProcessedText
        /\ lastProcessedTime' = c.lastProcessedTime
        /\ domCalls' = domCalls \o
              [i \in 1..Len(c.deliver) |->
                  [text |-> c.deliver[i], step |-> domStep,
                   afterCleanup |-> cleanedUp, time |-> now,
                   immediate |-> immediate, typing |-> typingVisible]]
        /\ checkAfterCleanup' = (checkAfterCleanup \/ cleanedUp)

\* the delays of the three setTimeout(startObserving, ...) calls of the effect
StartRetries == <<1000, 2000, 3000>>

InsertSorted(ts, d) ==
    LET k == Cardinality({i \in 1..Len(ts) : ts[i] <= d})
    IN  SubSeq(ts, 1, k) \o <<d>> \o SubSeq(ts, k + 1, Len(ts))

\* a startObserving that arms no retry when the container is absent
StartObservingForgetsRetry(present, isObserving, timers, t) ==
    [observing |-> isObserving \/ present, startTimers |-> timers]

\* startObserving() at time t: the observer's connection and the pending
\* setTimeout(startObserving, ...) deadlines it leaves
startObserving(present, isObserving, timers, t) ==
    IF present
    THEN [observing |-> TRUE, startTimers |-> timers]
    ELSE [observing |-> isObserving,
          startTimers |-> InsertSorted(timers, t + RetryDelay)]

\* the state the effect body leaves when it has run at MountTime
InitDom ==
    /\ activitiesData = [hasActivities |-> FALSE, activities |-> <<>>]
    /\ selResult = NotCalled
    /\ SvcIdle
    /\ PollIdle
    /\ AuxIdle
    /\ lastProcessedText = EmptyStr
    /\ lastProcessedTime = 0
    /\ messageStabilizationTimeout = NoTimer
    /\ lastSeenText = EmptyStr
    /\ stabilizationCount = 0
    /\ staleTimers = {}
    /\ now = MountTime
    /\ containerPresent \in BOOLEAN
    /\ LET first == startObserving(containerPresent, FALSE, <<>>, MountTime)
       IN  /\ observing = first.observing
           /\ startTimers = first.startTimers \o
                 [i \in 1..Len(StartRetries) |-> MountTime + StartRetries[i]]
    /\ intervalId = MountTime + CheckInterval
    /\ cleanedUp = FALSE
    /\ typingVisible = FALSE
    /\ scenario \in 1..Len(DomScripts)
    /\ step = 0
    /\ lastChangeAt = MountTime
    /\ slowChange = FALSE
    /\ typingSeen = FALSE
    /\ checkAfterCleanup = FALSE
    /\ domCalls = <<>>

\* the stabilization timeouts that are pending
PendingStabilizationTimers ==
    ({messageStabilizationTimeout} \ {NoTimer}) \cup staleTimers

PendingDeadlines ==
    ({intervalId, messageStabilizationTimeout} \ {NoTimer})
        \cup staleTimers
        \cup {startTimers[i] : i \in 1..Len(startTimers)}

MinOf(S) == CHOOSE m \in S : \A x \in S : m <= x

\* time passes to the next deadline; a timer that is due fires before time
\* passes, and the page changes at these instants, before or after the timers
Advance ==
    /\ now - MountTime < MaxTime
    /\ PendingDeadlines # {}
    /\ \A d \in PendingDeadlines : d > now
    /\ now' = MinOf(PendingDeadlines)
    /\ UNCHANGED <<selVars, pollVars, closureVars, pageVars, observing,
                   intervalId, startTimers, cleanedUp>>

\* the widget changes its messages; the observer's callback runs on the batch
DomMutates ==
    /\ containerPresent
    /\ step < Len(DomScripts[scenario])
    /\ step' = step + 1
    /\ lastChangeAt' = now
    /\ slowChange' = (slowChange \/
                        (step > 0 /\ now - lastChangeAt >= STABILIZATION_DELAY))
    /\ IF observing
       THEN RunCheck(FALSE, step + 1,
                     messageStabilizationTimeout, staleTimers)
       ELSE UNCHANGED closureVars
    /\ UNCHANGED <<selVars, pollVars, containerPresent, typingVisible, scenario,
                   typingSeen, observing, intervalId, startTimers, cleanedUp, now>>

\* the widget's container is added to the document
ContainerAppears ==
    /\ ~containerPresent
    /\ containerPresent' = TRUE
    /\ UNCHANGED <<selVars, pollVars, closureVars, typingVisible, scenario, step,
                   lastChangeAt, slowChange, typingSeen, observing, intervalId,
                   startTimers, cleanedUp, now>>

\* the widget shows its typing indicator (an element without text), once,
\* and hides it again
TypingToggles ==
    /\ containerPresent
    /\ typingVisible \/ ~typingSeen
    /\ typingVisible' = ~typingVisible
    /\ typingSeen' = TRUE
    /\ UNCHANGED <<selVars, pollVars, closureVars, containerPresent, scenario,
                   step, lastChangeAt, slowChange, observing, intervalId,
                   startTimers, cleanedUp, now>>

\* the 500 ms interval fires
IntervalFires ==
    /\ intervalId # NoTimer
    /\ intervalId <= now
    /\ intervalId' = intervalId + CheckInterval
    /\ RunCheck(FALSE, step, messageStabilizationTimeout, staleTimers)
    /\ UNCHANGED <<selVars, pollVars, pageVars, observing, startTimers,
                   cleanedUp, now>>

\* the stabilization timeout fires: checkAndProcessStableMessage(true)
StabilizationFiresNormalMode ==
    /\ \E d \in ({messageStabilizationTimeout} \ {NoTimer}) \cup staleTimers :
          /\ d <= now
          /\ IF d = messageStabilizationTimeout
             THEN RunCheck(FALSE, step, NoTimer, staleTimers)
             ELSE RunCheck(FALSE, step, messageStabilizationTimeout,
                           staleTimers \ {d})
    /\ UNCHANGED <<selVars, pollVars, pageVars, observing, intervalId,
                   startTimers, cleanedUp, now>>

StabilizationFires ==
    /\ \E d \in ({messageStabilizationTimeout} \ {NoTimer}) \cup staleTimers :
          /\ d <= now
          /\ IF d = messageStabilizationTimeout
             THEN RunCheck(TRUE, step, NoTimer, staleTimers)
             ELSE RunCheck(TRUE, step, messageStabilizationTimeout,
                           staleTimers \ {d})
    /\ UNCHANGED <<selVars, pollVars, pageVars, observing, intervalId,
                   startTimers, cleanedUp, now>>

\* a setTimeout(startObserving, ...) fires
StartObservingFires ==
    /\ startTimers # <<>>
    /\ Head(startTimers) <= now
    /\ LET after == startObserving(containerPresent, observing,
                                   Tail(startTimers), now)
       IN  /\ observing' = after.observing
           /\ startTimers' = after.startTimers
    /\ UNCHANGED <<selVars, pollVars, closureVars, pageVars, intervalId,
                   cleanedUp, now>>

\* the effect's cleanup function
Cleanup ==
    /\ ~cleanedUp
    /\ cleanedUp' = TRUE
    /\ observing' = FALSE
    /\ intervalId' = NoTimer
    /\ messageStabilizationTimeout' = NoTimer
    /\ UNCHANGED <<selVars, pollVars, lastProcessedText, lastProcessedTime,
                   lastSeenText, stabilizationCount, staleTimers,
                   checkAfterCleanup, domCalls,
                   pageVars, startTimers, now>>

NextDom ==
    \/ Advance
    \/ DomMutates
    \/ ContainerAppears
    \/ TypingToggles
    \/ IntervalFires
    \/ StabilizationFires
    \/ StartObservingFires
    \/ Cleanup

SpecDom == InitDom /\ [][NextDom]_vars

(***************************************************************************)
(* Claims about the DOM source, stated on SpecDom.                         *)
(***************************************************************************)
\* the page has stayed as it is long enough for the stabilization delay and
\* one more periodic check to have passed, every timer that was due has
\* fired, no typing indicator was shown and the source is running
Settled ==
    /\ ~cleanedUp
    /\ ~typingSeen
    /\ \A d \in PendingDeadlines : d > now
    /\ now - lastChangeAt >= STABILIZATION_DELAY + CheckInterval

\* C4: when the bot text is typed out as "Hel", "Hello", "Hello wor",
\* "Hello world", each change less than the stabilization delay after the
\* previous one, whatever the interleaving of mutation notifications and
\* periodic checks, every delivery has the text "Hello world", there is never
\* more than one, and there is one once the final text has settled.
C4_OneDeliveryOfFinalText ==
    (scenario = 1 /\ ~slowChange) =>
        /\ Len(domCalls) <= 1
        /\ \A i \in DOMAIN domCalls : domCalls[i].text = THelloWorld
        /\ (step = Len(DomScripts[1]) /\ Settled) => Len(domCalls) = 1

\* C5: when the bot text "Hi there" has appeared and stayed unchanged for the
\* stabilization delay, exactly one delivery has occurred, with the text
\* "Hi there".
C5_ShortReplyDelivered ==
    (scenario = 2 /\ step = 1 /\ Settled) =>
        /\ Len(domCalls) = 1
        /\ domCalls[1].text = THiThere

\* C6: onBotMessage is invoked at most once per bot message: no two
\* deliveries are made from the same, unchanged page.
C6_AtMostOncePerMessage ==
    \A i, j \in DOMAIN domCalls :
        i < j => domCalls[i].step # domCalls[j].step

\* C9: once the cleanup has run no timer of the source is pending, the
\* observer is disconnected, and neither the stability check nor
\* onBotMessage has run since.
C9_NothingAfterCleanup ==
    cleanedUp =>
        /\ PendingDeadlines = {}
        /\ ~observing
        /\ ~checkAfterCleanup
        /\ \A i \in DOMAIN domCalls : ~domCalls[i].afterCleanup

(***************************************************************************)
(* Further claims about the polling source, stated on SpecPoll.            *)
(***************************************************************************)
\* C11: at most one fetch of the source is in flight at any time.
C11_AtMostOneFetchInFlight == Len(inflight) <= 1

C12_AtMostOneTimer ==
    /\ armedIntervals <= 1
    /\ (pollingIntervalRef = "null") => armedIntervals = 0

C12_ActiveStartIsNoop ==
    (startReturnedEarly' /\ isActiveRef) =>
        UNCHANGED <<hookVars, inflight, calls, armedIntervals>>

\* C12: the polling loop is never started twice: at most one interval timer
\* of the source is armed, none when the ref holds none, and a startPolling
\* called while the source is active arms no timer and issues no fetch.
C12_NeverStartedTwice == [](C12_AtMostOneTimer) /\ [][C12_ActiveStartIsNoop]_vars

\* startPolling has just returned at its guard on an active source that has
\* already delivered a message
C12_Witness ==
    /\ startReturnedEarly
    /\ isActiveRef
    /\ armedIntervals = 1
    /\ calls # <<>>
\* C13: with an empty or missing conversation id or bearer token,
\* getBotActivities fails with the same reason whatever the network would
\* answer, and the source is not active, has no timer armed, no fetch in
\* flight and has not invoked the callback, startPolling calls included.
C13_MissingCredentialsInert ==
    (~Truthy(conversationId) \/ ~Truthy(bearerToken)) =>
        /\ \A response \in FailPool \cup {HttpResponse(200, "", serverLog)} :
              getBotActivities(conversationId, bearerToken, response)
                  = Thrown(CredentialsRequired)
        /\ ~isActiveRef
        /\ ~isPolling
        /\ pollingIntervalRef = "null"
        /\ armedIntervals = 0
        /\ inflight = <<>>
        /\ calls = <<>>

\* startPolling has just returned on a source whose conversation id is missing
C13_Witness ==
    /\ startReturnedEarly
    /\ conversationId = Undefined
    /\ bearerToken = Token1
    /\ serverLog # <<>>

(***************************************************************************)
(* SpecSvc: getBotActivities applied to every pair of credentials and      *)
(* every response of ResponsePool.                                         *)
(***************************************************************************)
Statuses == {200, 401, 403, 404, 500, 503}
BodyMessages == {"", "boom"}

ResponsePool ==
    {Rejected}
    \cup {HttpResponse(status, m, <<>>) : status \in Statuses, m \in BodyMessages}
    \cup {NullBodyResponse(status) : status \in Statuses}

InitSvc ==
    /\ activitiesData = [hasActivities |-> FALSE, activities |-> <<>>]
    /\ selResult = NotCalled
    /\ fetchResponse \in ResponsePool
    /\ fetchResult = NotCalled
    /\ conversationId \in {EmptyStr, Undefined, Conv1}
    /\ bearerToken \in {EmptyStr, Undefined, Token1}
    /\ HookIdle
    /\ DomIdle
    /\ AuxIdle

\* await getBotActivities(conversationId, bearerToken)
CallGetBotActivities ==
    /\ fetchResult = NotCalled
    /\ fetchResult' = getBotActivities(conversationId, bearerToken, fetchResponse)
    /\ UNCHANGED <<activitiesData, selResult, fetchResponse, auxVars,
                   pollVars, domVars>>

NextSvc == CallGetBotActivities

SpecSvc == InitSvc /\ [][NextSvc]_vars
\* the reason the claim gives for a non-success status and a body message
ReasonFor(status, bodyMessage) ==
    CASE status = 401 ->
             "Unauthorized: Invalid Bearer Token. Please check your token."
      [] status = 403 ->
             "Forbidden: Token may not have access to this conversation."
      [] status = 404 ->
             "Conversation not found: Invalid Conversation ID."
      [] OTHER ->
             IF bodyMessage # "" THEN bodyMessage
             ELSE "API error: " \o ToString(status)

\* C14: on a non-success HTTP response getBotActivities fails with the
\* reason its status determines (401, 403, 404), whatever the body is, and
\* for any other status with the body's message when there is one, else
\* with the generic message naming the status.
C14_ReasonFromStatus ==
    (/\ fetchResult # NotCalled
     /\ Truthy(conversationId)
     /\ Truthy(bearerToken)
     /\ fetchResponse.kind = "response"
     /\ ~fetchResponse.ok) =>
        /\ fetchResult.threw
        /\ fetchResult.message =
              ReasonFor(fetchResponse.status, fetchResponse.bodyMessage)
(***************************************************************************)
(* A further claim about getLatestBotMessage, stated on SpecSel.           *)
(***************************************************************************)
\* C15: getLatestBotMessage returns a BotMessage, one of the bot-authored
\* message activities with text or attachments, whenever the log has such
\* an activity, and none exactly when it has not; a selected activity that
\* has attachments and no text gives a BotMessage with empty text and those
\* attachments, not a failure.
C15_MessageIffCandidate ==
    selResult # NotCalled =>
        IF Candidates = {}
        THEN selResult = NullResult
        ELSE /\ selResult.kind = "message"
             /\ selResult.activity \in Candidates
             /\ ~Truthy(selResult.activity.text) =>
                   /\ selResult.text = EmptyStr
                   /\ selResult.attachments = selResult.activity.attachments
(***************************************************************************)
(* Further claims about the DOM source, stated on SpecDom.                 *)
(***************************************************************************)
C16_DeliveryWithoutPendingTimer ==
    Len(domCalls') > Len(domCalls) => messageStabilizationTimeout' = NoTimer

\* C16: onBotMessage is never invoked while a stabilization timer armed by
\* a growth event is still pending.
C16_TimerExcludesDelivery == [][C16_DeliveryWithoutPendingTimer]_vars
\* the text the check that made the i-th delivery read from the page
ObservedAt(i) ==
    LET botMessages == ExtractedAt[TRUE][scenario][domCalls[i].step]
    IN  botMessages[Len(botMessages)]

RECURSIVE Tokens(_)
\* the maximal runs of non-whitespace characters of s, in order
Tokens(s) ==
    LET t == TrimStart(s)
    IN  IF t = <<>> THEN <<>>
        ELSE LET k == CHOOSE k \in 1..(Len(t) + 1) :
                         /\ k = Len(t) + 1 \/ t[k] \in Whitespace
                         /\ \A j \in 1..(k - 1) : t[j] \notin Whitespace
             IN  <<SubSeq(t, 1, k - 1)>> \o Tokens(SubSeq(t, k, Len(t)))

\* delivered is observed without its emoji, its words separated by single
\* spaces, with no whitespace at either end
IsCleaned(observed, delivered) ==
    /\ \A k \in DOMAIN delivered : delivered[k] \notin EmojiChars
    /\ \A k \in DOMAIN delivered :
          delivered[k] \in Whitespace =>
              /\ delivered[k] = " "
              /\ k > 1
              /\ k < Len(delivered)
              /\ delivered[k + 1] \notin Whitespace
    /\ Tokens(delivered) = Tokens(SelectSeq(observed, LAMBDA c : c \notin EmojiChars))

TGreatChoiceClean ==
    <<"G", "r", "e", "a", "t", " ", "c", "h", "o", "i", "c", "e", "!",
      " ", "L", "e", "t", "'", "s", " ", "p", "r", "o", "c", "e", "e", "d">>

\* C17: every text passed to onBotMessage is the observed text with the
\* emoji removed, whitespace runs collapsed to one space and both ends
\* trimmed, and is longer than 5; "Great choice! (party popper) Let's
\* proceed" is delivered as "Great choice! Let's proceed".
C17_DeliveredTextIsCleaned ==
    \A i \in DOMAIN domCalls :
        /\ IsCleaned(ObservedAt(i), domCalls[i].text)
        /\ JsLength(domCalls[i].text) > 5
        /\ ObservedAt(i) = TGreatChoice => domCalls[i].text = TGreatChoiceClean

\* the reply with the emoji has been delivered
C17_Witness ==
    /\ scenario = 3
    /\ domCalls # <<>>
    /\ ObservedAt(1) = TGreatChoice
(***************************************************************************)
(* Claims about the dedup state of the polling source, stated on SpecPoll. *)
(***************************************************************************)
\* C18: at the moment onBotMessage is invoked for a message both dedup
\* refs already hold that message's id and text, so the test a poll would
\* make during the callback does not find the message new.
C18_DedupSetBeforeCallback ==
    \A i \in DOMAIN calls :
        /\ calls[i].seenActivityIdRef = calls[i].id
        /\ calls[i].seenMessageRef = calls[i].text

\* two messages have been delivered, the second replacing the first in the refs
C18_Witness ==
    /\ Len(calls) = 2
    /\ calls[1].id # calls[2].id
    /\ lastActivityIdRef = calls[2].id
C19_ChangedByDeliveryOnly ==
    (lastMessageRef' # lastMessageRef \/ lastActivityIdRef' # lastActivityIdRef) =>
        /\ Len(calls') = Len(calls) + 1
        /\ lastMessageRef' = calls'[Len(calls')].text
        /\ lastActivityIdRef' = calls'[Len(calls')].id

C19_LastNotRedelivered ==
    \A i \in 1..(Len(calls) - 1) :
        ~(calls[i].id = calls[i + 1].id /\ calls[i].text = calls[i + 1].text)

\* C19: the dedup refs change only in a step that delivers a message, to
\* that message's id and text (a failed poll, a poll without bot message or
\* with a message that is not new, stopPolling and startPolling leave them
\* alone), and no delivery repeats the delivery before it, stop and restart
\* included.
C19_DedupFrame == [](C19_LastNotRedelivered) /\ [][C19_ChangedByDeliveryOnly]_vars

\* a message was delivered while an error was set; the source was then
\* restarted (which cleared the error) and the restart's poll has completed,
\* selecting the same message, without a second delivery
C19_Witness ==
    /\ isActiveRef
    /\ inflight = <<>>
    /\ error = "null"
    /\ Len(calls) = 1
    /\ calls[1].afterError
    /\ prevSel.result.kind = "message"
    /\ DedupId(prevSel.result) = lastActivityIdRef
    /\ prevSel.result.text = lastMessageRef

(***************************************************************************)
(* A claim about the typing indicator, stated on SpecDom.                  *)
(***************************************************************************)
\* a step in which the stability check runs in its normal mode: the
\* interval fired, or the observer reported a change of the page
NormalCheckStep ==
    \/ intervalId' # intervalId /\ intervalId' # NoTimer
    \/ step' # step /\ observing

C20_TypingCheckChangesNothing ==
    (typingVisible /\ containerPresent /\ NormalCheckStep) =>
        UNCHANGED <<lastSeenText, stabilizationCount, messageStabilizationTimeout,
                    lastProcessedText, lastProcessedTime, domCalls>>

\* C20: a check that is not in immediate mode and runs while a typing
\* indicator is visible leaves last-seen text, stabilization counter,
\* pending timer, last-delivered text and time as they are and does not
\* invoke onBotMessage.
C20_TypingSuppressesCheck == [][C20_TypingCheckChangesNothing]_vars

\* a bot message is on the page, a periodic check has run since it appeared,
\* and the source has never seen it: the indicator was visible at that check
C20_Witness ==
    /\ typingVisible
    /\ ~cleanedUp
    /\ step >= 1
    /\ ExtractedAt[TRUE][scenario][step] # <<>>
    /\ lastSeenText = EmptyStr
    /\ now >= lastChangeAt + CheckInterval
    /\ \A d \in PendingDeadlines : d > now

\* the latest bot text on the page now, and the text of the last delivery as
\* it stood on the page
LatestText ==
    LET botMessages == ExtractedAt[containerPresent][scenario][step]
    IN  IF botMessages = <<>> THEN EmptyStr
        ELSE botMessages[Len(botMessages)]

LastDeliveredText ==
    IF domCalls = <<>> THEN EmptyStr ELSE ObservedAt(Len(domCalls))

C21_FireDelivers ==
    (/\ StabilizationFires
     /\ LatestText # EmptyStr
     /\ LatestText = lastSeenText
     /\ LatestText # LastDeliveredText
     /\ JsLength(CleanText(LatestText)) > MinStableLength)
    => /\ Len(domCalls') = Len(domCalls) + 1
       /\ domCalls'[Len(domCalls')].text = CleanText(LatestText)
       /\ domCalls'[Len(domCalls')].immediate

\* C21: when the stabilization timer fires and the latest text is the one
\* seen when the timer was armed, is not the text delivered last and cleans
\* to more than 5 characters, that check delivers it, in immediate mode,
\* whether or not a typing indicator is visible.
C21_ImmediateCheckDelivers == [][C21_FireDelivers]_vars

\* a delivery made by the timer's check while the indicator was visible
C21_Witness ==
    \E i \in DOMAIN domCalls :
        /\ domCalls[i].immediate
        /\ domCalls[i].typing
        /\ ~domCalls[i].afterCleanup

\* a step in which a check reads the page (it is not stopped by the typing
\* guard) and finds text different from and longer than the last-seen text
C22_GrowthCheck ==
    /\ \/ StabilizationFires
       \/ IntervalFires /\ ~isBotTyping(containerPresent, typingVisible)
       \/ DomMutates /\ observing
                     /\ ~isBotTyping(containerPresent, typingVisible)
    /\ LatestText' # lastSeenText
    /\ JsLength(LatestText') > JsLength(lastSeenText)

C22_GrowthRearms ==
    C22_GrowthCheck =>
        /\ lastSeenText' = LatestText'
        /\ stabilizationCount' = 0
        /\ PendingStabilizationTimers' = {now + STABILIZATION_DELAY}
        /\ domCalls' = domCalls

\* C22: at most one stabilization timeout is pending at any time, and every
\* check that observes text different from and strictly longer than the
\* last-seen text records it, sets the counter to 0, leaves exactly one
\* pending timeout, due a full delay later, and delivers nothing.
C22_OneStabilizationTimer ==
    /\ [](Cardinality(PendingStabilizationTimers) <= 1)
    /\ [][C22_GrowthRearms]_vars

\* the text grew again while the timeout armed for the shorter text was
\* still pending, and one timeout is pending, armed at the second growth
C22_Witness ==
    /\ scenario = 1
    /\ step >= 2
    /\ lastSeenText = LatestText
    /\ ~slowChange
    /\ messageStabilizationTimeout = lastChangeAt + STABILIZATION_DELAY
    /\ messageStabilizationTimeout > now
    /\ lastChangeAt > MountTime

\* a delivery of the page text that the previous delivery was made for
C23_SamePageText ==
    (/\ Len(domCalls') = Len(domCalls) + 1
     /\ domCalls # <<>>
     /\ ObservedAt(Len(domCalls))' = LastDeliveredText)
    => now - domCalls[Len(domCalls)].time > SameMessageWindow

C23_SamePageTextAfterWindow == [][C23_SamePageText]_vars

C23_Redelivery ==
    (/\ Len(domCalls') = Len(domCalls) + 1
     /\ domCalls # <<>>
     /\ domCalls'[Len(domCalls')].text = domCalls[Len(domCalls)].text)
    => now - domCalls[Len(domCalls)].time > SameMessageWindow

\* C23: a delivery of the text that the previous delivery delivered happens
\* more than 5 seconds after that delivery, whichever check makes it.
C23_NoRedeliveryWithinWindow == [][C23_Redelivery]_vars

\* C24: once a bot message has been the latest extracted text for the
\* stabilization delay and one more periodic check, with no typing indicator
\* shown, the observer connected and the source running, the last delivery
\* is a delivery of that message, whatever text was seen before it.
C24_NewMessageDelivered ==
    (/\ Settled
     /\ observing
     /\ LatestText # EmptyStr
     /\ JsLength(CleanText(LatestText)) > MinStableLength)
    => LastDeliveredText = LatestText

\* C25: between checks the stabilization counter is 0.
C25_CounterIsZero == stabilizationCount = 0

\* a delivery was made and a later periodic check has run on the same text,
\* with no indicator shown: both took the branch that increments the counter
C25_Witness ==
    /\ domCalls # <<>>
    /\ ~cleanedUp
    /\ ~typingSeen
    /\ LatestText = lastSeenText
    /\ LatestText = LastDeliveredText
    /\ now >= domCalls[Len(domCalls)].time + CheckInterval
    /\ now >= lastChangeAt + CheckInterval
    /\ \A d \in PendingDeadlines : d > now
    /\ stabilizationCount = 0

(***************************************************************************)
(* SpecObserve: the DOM source mounted before the widget's container is on *)
(* the page, with its timers firing: a timeout or interval that is due     *)
(* runs, and time passes when none is due.  The widget shows one reply.    *)
(***************************************************************************)
InitObserve ==
    /\ InitDom
    /\ ~containerPresent
    /\ scenario = 3

\* the interval is due; a stabilization timeout is due
IntervalDue == intervalId # NoTimer /\ intervalId <= now
StabilizationDue == \E d \in PendingStabilizationTimers : d <= now

\* IntervalFires and StabilizationFires are enabled exactly when their timer
\* is due and leave it not due, so that their weak fairness is []<> of the
\* timer not being due
SpecObserve ==
    /\ InitObserve
    /\ [][NextDom]_vars
    /\ WF_vars(Advance)
    /\ WF_vars(StartObservingFires)
    /\ []<>(~IntervalDue)
    /\ []<>(~StabilizationDue)

\* the container is on the page, the observer is not connected yet, and the
\* clock of the model can still reach the next retry
C28_ContainerUnobserved ==
    /\ containerPresent
    /\ ~observing
    /\ ~cleanedUp
    /\ now + RetryDelay <= MountTime + MaxTime

\* C28: a container that was absent at mount and is on the page now is
\* eventually observed, unless the source is cleaned up first.
C28_EventuallyObserved == C28_ContainerUnobserved ~> (observing \/ cleanedUp)

\* the container appeared after the three fixed retries had run and the
\* observer is connected
C28_Witness ==
    /\ observing
    /\ ~cleanedUp
    /\ Len(startTimers) = 1
    /\ step = 0
    /\ ~typingSeen
    /\ now > MountTime + 3 * RetryDelay

\* the positions of the log that hold bot-authored message activities
CandidatePositions ==
    {k \in 1..Len(activitiesData.activities) :
        Retained(activitiesData.activities[k])}

\* every candidate has a timestamp that parses and no two have the same
C26_DistinctTimestamps ==
    /\ activitiesData.hasActivities
    /\ CandidatePositions # {}
    /\ \A k \in CandidatePositions :
          HasParsedTime(activitiesData.activities[k])
    /\ \A j, k \in CandidatePositions :
          j # k => activitiesData.activities[j].timestamp
                     # activitiesData.activities[k].timestamp

C26_GreatestReturned ==
    (selResult # NotCalled /\ C26_DistinctTimestamps) =>
        /\ selResult.kind = "message"
        /\ selResult.activity \in Candidates
        /\ \A c \in Candidates : c.timestamp <= selResult.activity.timestamp

\* C26: when the candidates of the log have parsed, pairwise distinct
\* timestamps, getLatestBotMessage returns the candidate with the greatest
\* one, wherever it stands in the log, and the call leaves the log as it was.
C26_GreatestTimestampAnyOrder ==
    /\ []C26_GreatestReturned
    /\ [][activitiesData' = activitiesData]_vars

\* the same, for the logs whose candidates all have text
C26_GreatestOfTextMessages ==
    (\A c \in Candidates : c.text # Undefined) => C26_GreatestReturned

\* a startPolling() that passes its guards sends one request itself and
\* leaves one interval running
C27_StartIssuesOne ==
    (~isActiveRef /\ isActiveRef') =>
        /\ Len(inflight') = Len(inflight) + 1
        /\ ~tickIssued'
        /\ armedIntervals' = 1

\* a request sent by the interval is sent while polling is started
C27_TickWhileActive ==
    tickIssued' =>
        /\ Len(inflight') = Len(inflight) + 1
        /\ isActiveRef /\ isActiveRef'

\* C27: startPolling, when it passes its guards, sends one request at once
\* and leaves one interval running; the interval stays armed, and its tick
\* can send the next request, for as long as stopPolling has not been
\* called, whatever the requests return; after stopPolling no interval is
\* armed and no tick sends a request.
C27_TicksFromStartToStop ==
    /\ [](armedIntervals = IF isActiveRef THEN 1 ELSE 0)
    /\ []((isActiveRef /\ CanIssue) => ENABLED PollTick)
    /\ []((~isActiveRef) => ~ENABLED PollTick)
    /\ [][C27_StartIssuesOne /\ C27_TickWhileActive]_vars

\* a tick has just sent a request, after a request of this run of polling
\* had failed, and the interval is still armed
C27_Witness ==
    /\ tickIssued
    /\ isActiveRef
    /\ pollFailed
    /\ armedIntervals = 1

(***************************************************************************)
(* SpecStt: the speech-to-text service (services/sttServiceImproved.js)    *)
(* with one set of callbacks.  The recognizer is the environment: while it *)
(* is running, and after stop() until it ends, it delivers result events;  *)
(* an error is followed by the end of the session; the end is its last     *)
(* event.  Transcripts are one character long.                             *)
(***************************************************************************)
FinalTranscripts == {<<"a">>, <<"b">>}
InterimTranscripts == {<<"x">>, <<" ">>}

\* the results event.resultIndex .. event.results.length - 1 of one event
ResultEvents ==
    {<<[transcript |-> t, isFinal |-> TRUE]>> : t \in FinalTranscripts}
    \cup {<<[transcript |-> t, isFinal |-> FALSE]>> : t \in InterimTranscripts}
    \cup {<<[transcript |-> <<"a">>, isFinal |-> TRUE],
            [transcript |-> <<"x">>, isFinal |-> FALSE]>>}

RECURSIVE FinalPart(_)
\* finalTranscript after the loop of onresult
FinalPart(event) ==
    IF event = <<>> THEN <<>>
    ELSE (IF Head(event).isFinal THEN Head(event).transcript \o <<" ">>
          ELSE <<>>) \o FinalPart(Tail(event))

RECURSIVE InterimPart(_)
\* interimTranscript after the loop of onresult
InterimPart(event) ==
    IF event = <<>> THEN <<>>
    ELSE (IF Head(event).isFinal THEN <<>> ELSE Head(event).transcript)
            \o InterimPart(Tail(event))

\* the texts recognition.onresult leaves, and whether it calls
\* resetSilenceTimeout
OnResult(acc, last, event) ==
    LET finalTranscript == FinalPart(event)
        interimTranscript == InterimPart(event)
        \* line 100, once for each final result of the event
        acc1 == acc \o finalTranscript
        hasInterim == Trim(interimTranscript) # <<>>
        fullText == Trim(Trim(acc1) \o <<" ">> \o Trim(interimTranscript))
        last1 == IF hasInterim THEN fullText ELSE last
        hasFinal == Trim(finalTranscript) # <<>>
        \* line 119
        acc2 == IF hasFinal
                THEN Trim(Trim(acc1) \o <<" ">> \o Trim(finalTranscript))
                ELSE acc1
        last2 == IF hasFinal /\ ~hasInterim THEN acc2 ELSE last1
    IN  [accumulatedText |-> acc2, lastTranscript |-> last2,
         reset |-> hasInterim \/ hasFinal]

\* clearSilenceTimeout(): the pending timeouts it leaves
ClearSilenceTimeout == silenceTimers \ {silenceTimeout}

InitStt ==
    /\ activitiesData = [hasActivities |-> FALSE, activities |-> <<>>]
    /\ selResult = NotCalled
    /\ SvcIdle
    /\ PollIdle
    /\ DomIdle
    /\ TtsIdle
    /\ NetIdle
    /\ TypingIdle
    /\ WaveIdle
    /\ recognition = "null"
    /\ sttSupported \in BOOLEAN
    /\ isListening = FALSE
    /\ silenceTimeout = NoTimer
    /\ lastTranscript = EmptyStr
    /\ accumulatedText = EmptyStr
    /\ silenceTimers = {}
    /\ endTimers = <<>>
    /\ sttNow = 0
    /\ sttResults = 0
    /\ finalized = <<>>
    /\ lastResultAt = 0
    /\ cancelled = FALSE
    /\ sttErrorCalls = 0
    /\ sttCalls = <<>>

coreVars == <<activitiesData, selResult, fetchResponse, fetchResult,
              pollVars, domVars>>
sttFrame == <<coreVars, sttSupported, ttsVars, netVars, typingVars, waveVars>>

\* an initializeBrowserSTT() that makes a recognizer in any browser
InitializeWithoutSupportCheck(rec, supported) ==
    IF rec = "null" THEN "idle" ELSE rec

\* initializeBrowserSTT(): the recognizer it returns, "null" for null
initializeBrowserSTT(rec, supported) ==
    IF ~supported THEN "null"
    ELSE IF rec = "null" THEN "idle" ELSE rec

\* startBrowserListening(onInterimResult, onFinalResult, onError, onEnd)
StartBrowserListening ==
    /\ LET rec == IF recognition = "null"
                  THEN initializeBrowserSTT(recognition, sttSupported)
                  ELSE recognition
       IN  IF rec = "null"
           THEN \* onError('Speech Recognition not supported'); return false
                /\ sttErrorCalls' = 1
                /\ UNCHANGED <<recognition, isListening, lastTranscript,
                               accumulatedText, finalized, cancelled>>
           ELSE IF isListening
           THEN /\ recognition' = rec
                /\ sttErrorCalls' = 0
                /\ UNCHANGED <<isListening, lastTranscript, accumulatedText,
                               finalized, cancelled>>
           ELSE /\ lastTranscript' = EmptyStr
                /\ accumulatedText' = EmptyStr
                /\ finalized' = <<>>
                /\ IF rec = "idle"
                   THEN \* recognition.start() succeeds
                        /\ recognition' = "running"
                        /\ isListening' = TRUE
                        /\ cancelled' = FALSE
                        /\ sttErrorCalls' = 0
                   ELSE \* the session has not ended: start() throws
                        /\ isListening' = FALSE
                        /\ sttErrorCalls' = 1
                        /\ UNCHANGED <<recognition, cancelled>>
    /\ UNCHANGED <<sttFrame, silenceTimeout, silenceTimers, endTimers, sttNow,
                   sttResults, lastResultAt, sttCalls>>

\* the recognizer delivers a result event: recognition.onresult
RecognitionResult ==
    /\ recognition \in {"running", "stopping"}
    /\ sttResults < MaxSttResults
    /\ sttResults' = sttResults + 1
    /\ \E event \in ResultEvents :
          LET after == OnResult(accumulatedText, lastTranscript, event)
          IN  /\ accumulatedText' = after.accumulatedText
              /\ lastTranscript' = after.lastTranscript
              /\ finalized' = finalized \o
                    SelectSeq([i \in 1..Len(event) |->
                                  IF event[i].isFinal
                                  THEN Trim(event[i].transcript) ELSE <<>>],
                              LAMBDA t : t # <<>>)
              /\ IF after.reset
                 THEN \* resetSilenceTimeout(onFinalResult)
                      /\ silenceTimeout' = sttNow + SILENCE_TIMEOUT_MS
                      /\ silenceTimers' = ClearSilenceTimeout
                                            \cup {sttNow + SILENCE_TIMEOUT_MS}
                      /\ lastResultAt' = sttNow
                 ELSE UNCHANGED <<silenceTimeout, silenceTimers, lastResultAt>>
    /\ sttErrorCalls' = 0
    /\ UNCHANGED <<sttFrame, recognition, isListening, endTimers, sttNow,
                   cancelled, sttCalls>>

\* the recognizer raises an error: recognition.onerror
RecognitionError ==
    /\ recognition \in {"running", "stopping"}
    /\ recognition' = "failing"
    /\ isListening' = FALSE
    /\ silenceTimers' = ClearSilenceTimeout
    /\ silenceTimeout' = NoTimer
    /\ cancelled' = TRUE
    /\ sttErrorCalls' = 1
    /\ UNCHANGED <<sttFrame, lastTranscript, accumulatedText, endTimers, sttNow,
                   sttResults, finalized, lastResultAt, sttCalls>>

\* the session ends: recognition.onend
RecognitionEnd ==
    /\ recognition \in {"running", "stopping", "failing"}
    /\ recognition' = "idle"
    /\ isListening' = FALSE
    /\ silenceTimers' = ClearSilenceTimeout
    /\ silenceTimeout' = NoTimer
    /\ cancelled' = TRUE
    /\ endTimers' =
          IF Trim(accumulatedText) # <<>> /\ Trim(lastTranscript) # <<>>
          THEN Append(endTimers, [at |-> sttNow + EndCallDelay,
                                  text |-> Trim(lastTranscript),
                                  late |-> FALSE])
          ELSE IF Trim(accumulatedText) # <<>>
          THEN Append(endTimers, [at |-> sttNow + EndCallDelay,
                                  text |-> EmptyStr, late |-> TRUE])
          ELSE endTimers
    /\ sttErrorCalls' = 0
    /\ UNCHANGED <<sttFrame, lastTranscript, accumulatedText, sttNow,
                   sttResults, finalized, lastResultAt, sttCalls>>

\* stopListening()
StopListening ==
    /\ IF recognition # "null" /\ isListening
       THEN /\ recognition' = IF recognition = "running" THEN "stopping"
                              ELSE recognition
            /\ isListening' = FALSE
            /\ silenceTimers' = ClearSilenceTimeout
            /\ silenceTimeout' = NoTimer
            /\ cancelled' = TRUE
       ELSE UNCHANGED <<recognition, isListening, silenceTimers,
                        silenceTimeout, cancelled>>
    /\ sttErrorCalls' = 0
    /\ UNCHANGED <<sttFrame, lastTranscript, accumulatedText, endTimers, sttNow,
                   sttResults, finalized, lastResultAt, sttCalls>>

FinalResultCall(text, bySilence) ==
    [text |-> text, bySilence |-> bySilence, finalized |-> finalized,
     cancelled |-> cancelled]

\* a silence timeout fires: the callback of resetSilenceTimeout
SilenceFires ==
    /\ \E d \in silenceTimers :
          /\ d <= sttNow
          /\ silenceTimers' = (silenceTimers \ {d}) \ {silenceTimeout}
    /\ silenceTimeout' = NoTimer
    /\ LET textToKeep == IF Trim(lastTranscript) # <<>>
                         THEN Trim(lastTranscript)
                         ELSE Trim(accumulatedText)
       IN  sttCalls' = IF textToKeep # <<>>
                       THEN Append(sttCalls, FinalResultCall(textToKeep, TRUE))
                       ELSE sttCalls
    /\ sttErrorCalls' = 0
    /\ UNCHANGED <<sttFrame, recognition, isListening, lastTranscript,
                   accumulatedText, endTimers, sttNow, sttResults, finalized,
                   lastResultAt, cancelled>>

\* a timeout set by onend fires
EndCallFires ==
    /\ endTimers # <<>>
    /\ Head(endTimers).at <= sttNow
    /\ endTimers' = Tail(endTimers)
    /\ sttCalls' = Append(sttCalls,
                          FinalResultCall(IF Head(endTimers).late
                                          THEN Trim(accumulatedText)
                                          ELSE Head(endTimers).text, FALSE))
    /\ sttErrorCalls' = 0
    /\ UNCHANGED <<sttFrame, recognition, isListening, silenceTimeout,
                   lastTranscript, accumulatedText, silenceTimers, sttNow,
                   sttResults, finalized, lastResultAt, cancelled>>

SttDeadlines == silenceTimers \cup {endTimers[i].at : i \in 1..Len(endTimers)}

\* time passes, to the next deadline at most; a timeout that is due fires
\* before time passes
SttAdvance ==
    /\ sttNow < MaxSttTime
    /\ \A d \in SttDeadlines : d > sttNow
    /\ LET next == sttNow + (SILENCE_TIMEOUT_MS \div 2)
       IN  sttNow' = IF \E d \in SttDeadlines : d < next
                     THEN MinOf(SttDeadlines) ELSE next
    /\ sttErrorCalls' = 0
    /\ UNCHANGED <<sttFrame, recognition, isListening, silenceTimeout,
                   lastTranscript, accumulatedText, silenceTimers, endTimers,
                   sttResults, finalized, lastResultAt, cancelled, sttCalls>>

NextStt ==
    \/ StartBrowserListening
    \/ RecognitionResult
    \/ RecognitionError
    \/ RecognitionEnd
    \/ StopListening
    \/ SilenceFires
    \/ EndCallFires
    \/ SttAdvance

SpecStt == InitStt /\ [][NextStt]_vars

(***************************************************************************)
(* SpecTts: speakText and stopSpeaking (services/sttServiceImproved.js)    *)
(* with window.speechSynthesis as the environment.  speak() queues an      *)
(* utterance; the first of the queue starts and then ends or fails;        *)
(* cancel() empties the queue, and each utterance it removes gets its last *)
(* event (end or error) later, in any order.                               *)
(***************************************************************************)
SpeakTexts == {EmptyStr, <<" ">>, <<"h", "i">>}

InitTts ==
    /\ activitiesData = [hasActivities |-> FALSE, activities |-> <<>>]
    /\ selResult = NotCalled
    /\ SvcIdle
    /\ PollIdle
    /\ DomIdle
    /\ SttIdle
    /\ TtsIdle
    /\ NetIdle
    /\ TypingIdle
    /\ WaveIdle

ttsFrame == <<coreVars, sttVars, netVars, typingVars, waveVars>>

\* window.speechSynthesis.cancel(): the utterances whose last event is due
SynthesisCancel ==
    ttsCancelled \cup {ttsQueue[i] : i \in 1..Len(ttsQueue)}

\* speakText(text, onStart, onEnd, onError)
SpeakText(text) ==
    /\ ttsMade < MaxUtterances
    /\ IF text = EmptyStr \/ Len(Trim(text)) = 0
       THEN UNCHANGED ttsVars
       ELSE LET utterance == ttsMade + 1
                cancels == currentUtterance # 0
            IN  /\ ttsMade' = utterance
                /\ ttsCancelled' = IF cancels THEN SynthesisCancel
                                   ELSE ttsCancelled
                /\ ttsStarted' = IF cancels THEN FALSE ELSE ttsStarted
                /\ currentUtterance' = utterance
                /\ ttsQueue' = (IF cancels THEN <<>> ELSE ttsQueue)
                                  \o <<utterance>>
                /\ UNCHANGED isSpeaking
    /\ UNCHANGED ttsFrame

\* the first utterance of the queue starts: utterance.onstart
UtteranceStarts ==
    /\ ttsQueue # <<>>
    /\ ~ttsStarted
    /\ ttsStarted' = TRUE
    /\ isSpeaking' = TRUE
    /\ UNCHANGED <<ttsFrame, currentUtterance, ttsQueue, ttsCancelled, ttsMade>>

\* the utterance being spoken ends, or the first of the queue fails:
\* utterance.onend, utterance.onerror
UtteranceFinishes ==
    /\ ttsQueue # <<>>
    /\ ttsQueue' = Tail(ttsQueue)
    /\ ttsStarted' = FALSE
    /\ isSpeaking' = FALSE
    /\ currentUtterance' = 0
    /\ UNCHANGED <<ttsFrame, ttsCancelled, ttsMade>>

\* the last event of a cancelled utterance fires: its onend or onerror
CancelledEventFires ==
    /\ \E u \in ttsCancelled : ttsCancelled' = ttsCancelled \ {u}
    /\ isSpeaking' = FALSE
    /\ currentUtterance' = 0
    /\ UNCHANGED <<ttsFrame, ttsQueue, ttsStarted, ttsMade>>

\* stopSpeaking()
StopSpeaking ==
    /\ ttsCancelled' = SynthesisCancel
    /\ ttsQueue' = <<>>
    /\ ttsStarted' = FALSE
    /\ isSpeaking' = FALSE
    /\ currentUtterance' = 0
    /\ UNCHANGED <<ttsFrame, ttsMade>>

NextTts ==
    \/ \E text \in SpeakTexts : SpeakText(text)
    \/ UtteranceStarts
    \/ UtteranceFinishes
    \/ CancelledEventFires
    \/ StopSpeaking

SpecTts == InitTts /\ [][NextTts]_vars

(***************************************************************************)
(* SpecNet: the network monitor (unnamed/part_002).  Requests are the      *)
(* inputs: a URL that names the Direct Line host or not and a conversation *)
(* or none, and an Authorization header or none.  A listener callback is   *)
(* the caller's function: one of them calls an unsubscribe function.       *)
(***************************************************************************)
BearerPrefix == <<"B", "e", "a", "r", "e", "r", " ">>

\* the conversation segment of a URL, NullValue when the pattern has no match
UrlConversations == {NullValue, <<"c", "1">>, <<"c", "2">>}
RequestUrls == [directline : BOOLEAN, conversation : UrlConversations]

\* Authorization header values, NullValue for a missing header
AuthHeaders ==
    {NullValue, EmptyStr, BearerPrefix, BearerPrefix \o <<"t", "1">>,
     BearerPrefix \o <<"t", "2">>, <<"B", "a", "s", "i", "c", " ", "t", "1">>}

\* s.startsWith(prefix)
StartsWith(s, prefix) ==
    /\ Len(s) >= Len(prefix)
    /\ SubSeq(s, 1, Len(prefix)) = prefix

\* s.substring(n)
Substring(s, n) == SubSeq(s, n + 1, Len(s))

\* detectedConversationId && detectedBearerToken
Known(v) == v # NullValue /\ v # EmptyStr

\* the calls of listeners.forEach(callback => callback({...})): forEach
\* walks the array it was called on, whatever the callbacks do to the
\* variable credentialsListeners meanwhile
ForEachListener(listeners, cid, token) ==
    [i \in 1..Len(listeners) |->
        [callback |-> listeners[i], conversationId |-> cid,
         bearerToken |-> token,
         afterUnsubscribe |->
            \E j \in 1..(i - 1) : UnsubscribedBy(listeners[j]) = listeners[i]]]

\* notifyCredentialsListeners with the stored listeners, cid and token
notifyCredentialsListeners(listeners, cid, token) ==
    IF Known(cid) /\ Known(token)
    THEN ForEachListener(listeners, cid, token)
    ELSE <<>>

\* the callbacks whose unsubscribe function the calls have run
UnsubscribedIn(made, subscription) ==
    {cb \in Callbacks :
        /\ subscription[cb] # "none"
        /\ \E i \in 1..Len(made) : UnsubscribedBy(made[i].callback) = cb}

\* credentialsListeners after the calls
ListenersAfter(made, listeners, subscription) ==
    SelectSeq(listeners,
              LAMBDA cb : cb \notin UnsubscribedIn(made, subscription))

\* credentialsListeners and netSubscription after the calls
CallbacksRan(made, listeners, subscription) ==
    /\ credentialsListeners' = ListenersAfter(made, listeners, subscription)
    /\ netSubscription' =
          [cb \in Callbacks |->
              IF cb \in UnsubscribedIn(made, subscription)
              THEN "unsubscribed" ELSE subscription[cb]]

InitNet ==
    /\ activitiesData = [hasActivities |-> FALSE, activities |-> <<>>]
    /\ selResult = NotCalled
    /\ SvcIdle
    /\ PollIdle
    /\ DomIdle
    /\ SttIdle
    /\ TtsIdle
    /\ NetIdle
    /\ TypingIdle
    /\ WaveIdle

netFrame == <<coreVars, sttVars, ttsVars, typingVars, waveVars>>

startNetworkMonitoring ==
    /\ netHandler' = "startNetworkMonitoring"
    /\ netMonitoring' = TRUE
    /\ netCalls' = <<>>
    /\ UNCHANGED <<netFrame, detectedConversationId, detectedBearerToken,
                   credentialsListeners, netSubscription>>

\* the conversation id after lines 25-33 (59-67) for a Direct Line URL
DetectedConversation(url) ==
    IF url.conversation # NullValue /\ url.conversation # detectedConversationId
    THEN url.conversation
    ELSE detectedConversationId

\* the token after lines 36-46 (75-82) for a header value
DetectedToken(header) ==
    IF /\ header # NullValue
       /\ header # EmptyStr
       /\ StartsWith(header, BearerPrefix)
       /\ Substring(header, Len(BearerPrefix)) # detectedBearerToken
    THEN Substring(header, Len(BearerPrefix))
    ELSE detectedBearerToken

\* the wrapped window.fetch(url, options)
MonitoredFetch(url, header) ==
    /\ netHandler' = "fetch"
    /\ netMonitoring
    /\ IF url.directline
       THEN LET cid == DetectedConversation(url)
                token == DetectedToken(header)
            IN  /\ detectedConversationId' = cid
                /\ detectedBearerToken' = token
                /\ LET first ==
                          IF cid # detectedConversationId
                          THEN notifyCredentialsListeners(
                                   credentialsListeners, cid,
                                   detectedBearerToken)
                          ELSE <<>>
                       second ==
                          IF token # detectedBearerToken
                          THEN notifyCredentialsListeners(
                                   ListenersAfter(first, credentialsListeners,
                                                  netSubscription),
                                   cid, token)
                          ELSE <<>>
                   IN  netCalls' = first \o second
       ELSE /\ netCalls' = <<>>
            /\ UNCHANGED <<detectedConversationId, detectedBearerToken>>
    /\ CallbacksRan(netCalls', credentialsListeners, netSubscription)
    /\ UNCHANGED <<netFrame, netMonitoring>>

\* the wrapped XMLHttpRequest.prototype.open(method, url)
XhrOpen(url) ==
    /\ netHandler' = "open"
    /\ netMonitoring
    /\ IF url.directline
       THEN LET cid == DetectedConversation(url)
            IN  /\ detectedConversationId' = cid
                /\ netCalls' = IF cid # detectedConversationId
                               THEN notifyCredentialsListeners(
                                        credentialsListeners, cid,
                                        detectedBearerToken)
                               ELSE <<>>
       ELSE /\ netCalls' = <<>>
            /\ UNCHANGED detectedConversationId
    /\ CallbacksRan(netCalls', credentialsListeners, netSubscription)
    /\ UNCHANGED <<netFrame, detectedBearerToken, netMonitoring>>

\* the wrapped XMLHttpRequest.prototype.setRequestHeader('Authorization', value)
XhrSetRequestHeader(value) ==
    /\ netHandler' = "setRequestHeader"
    /\ netMonitoring
    /\ value # NullValue
    /\ LET token == DetectedToken(value)
       IN  /\ detectedBearerToken' = token
           /\ netCalls' = IF token # detectedBearerToken
                          THEN notifyCredentialsListeners(
                                   credentialsListeners,
                                   detectedConversationId, token)
                          ELSE <<>>
    /\ CallbacksRan(netCalls', credentialsListeners, netSubscription)
    /\ UNCHANGED <<netFrame, detectedConversationId, netMonitoring>>

\* onCredentialsDetected(callback)
onCredentialsDetected(callback) ==
    /\ netHandler' = "onCredentialsDetected"
    /\ Len(credentialsListeners) < MaxListeners
    /\ netCalls' = IF Known(detectedConversationId) /\ Known(detectedBearerToken)
                   THEN <<[callback |-> callback,
                           conversationId |-> detectedConversationId,
                           bearerToken |-> detectedBearerToken,
                           afterUnsubscribe |-> FALSE]>>
                   ELSE <<>>
    /\ CallbacksRan(netCalls', Append(credentialsListeners, callback),
                    [netSubscription EXCEPT ![callback] = "subscribed"])
    /\ UNCHANGED <<netFrame, detectedConversationId, detectedBearerToken,
                   netMonitoring>>

\* the function onCredentialsDetected(callback) returned
Unsubscribe(callback) ==
    /\ netHandler' = "unsubscribe"
    /\ netSubscription[callback] # "none"
    /\ credentialsListeners' =
          SelectSeq(credentialsListeners, LAMBDA cb : cb # callback)
    /\ netSubscription' = [netSubscription EXCEPT ![callback] = "unsubscribed"]
    /\ netCalls' = <<>>
    /\ UNCHANGED <<netFrame, detectedConversationId, detectedBearerToken,
                   netMonitoring>>

clearCredentials ==
    /\ netHandler' = "clearCredentials"
    /\ detectedConversationId' = NullValue
    /\ detectedBearerToken' = NullValue
    /\ credentialsListeners' = <<>>
    /\ netCalls' = <<>>
    /\ UNCHANGED <<netFrame, netMonitoring, netSubscription>>

NextNet ==
    \/ startNetworkMonitoring
    \/ \E url \in RequestUrls, header \in AuthHeaders :
          MonitoredFetch(url, header)
    \/ \E url \in RequestUrls : XhrOpen(url)
    \/ \E value \in AuthHeaders : XhrSetRequestHeader(value)
    \/ \E callback \in Callbacks : onCredentialsDetected(callback)
    \/ \E callback \in Callbacks : Unsubscribe(callback)
    \/ clearCredentials

SpecNet == InitNet /\ [][NextNet]_vars

(***************************************************************************)
(* SpecTyping: the hook useTypingDetection (hooks/useTypingDetection.js).  *)
(* The page is the environment: the webchat element loads, the user types  *)
(* into its input field (an input event), the page empties the field       *)
(* without an input event.  The clock moves from deadline to deadline and  *)
(* a timer runs when the clock is at its deadline.                         *)
(***************************************************************************)
TypingClearDelay == 2000
TypingCheckInterval == 500
MonitoringRetryDelay == 1000
MaxTypingTime == 2 * TypingClearDelay

InputValues == {EmptyStr, <<" ">>, <<"h", "i">>}

InitTyping ==
    /\ activitiesData = [hasActivities |-> FALSE, activities |-> <<>>]
    /\ selResult = NotCalled
    /\ SvcIdle
    /\ PollIdle
    /\ DomIdle
    /\ SttIdle
    /\ TtsIdle
    /\ NetIdle
    /\ WaveIdle
    /\ isTyping = FALSE
    /\ typingTimeoutRef = 0
    /\ typingInterval = 0
    /\ typingRetry = 0
    /\ typingListening = FALSE
    /\ typingMounted = FALSE
    /\ webchatLoaded \in BOOLEAN
    /\ inputValue = EmptyStr
    /\ indicatorVisible \in BOOLEAN
    /\ typingNow = 0
    /\ lastInputAt = -1

typingFrame == <<coreVars, sttVars, ttsVars, netVars, waveVars,
                 indicatorVisible>>

\* detectTyping() with the field holding value
detectTyping(value) == webchatLoaded /\ Len(Trim(value)) > 0

\* checkTypingIndicator()
checkTypingIndicator == webchatLoaded /\ indicatorVisible

\* checkTyping() with the field holding value: the pending timeout is
\* cleared and, when typing is seen, a new one takes its place
checkTyping(value) ==
    LET currentlyTyping == detectTyping(value) \/ checkTypingIndicator
    IN  /\ isTyping' = currentlyTyping
        /\ typingTimeoutRef' =
              IF currentlyTyping THEN typingNow + TypingClearDelay ELSE 0

\* startMonitoring()
startMonitoring ==
    IF webchatLoaded
    THEN /\ typingListening' = TRUE
         /\ typingRetry' = 0
         /\ checkTyping(inputValue)
    ELSE /\ typingRetry' = typingNow + MonitoringRetryDelay
         /\ UNCHANGED <<typingListening, isTyping, typingTimeoutRef>>

\* the effect runs: startMonitoring() and setInterval(checkTyping, 500)
MountTyping ==
    /\ ~typingMounted
    /\ typingNow = 0
    /\ typingMounted' = TRUE
    /\ startMonitoring
    /\ typingInterval' = typingNow + TypingCheckInterval
    /\ UNCHANGED <<typingFrame, webchatLoaded, inputValue, typingNow,
                   lastInputAt>>

\* the webchat element appears in the page
WebchatLoads ==
    /\ ~webchatLoaded
    /\ webchatLoaded' = TRUE
    /\ UNCHANGED <<typingFrame, isTyping, typingTimeoutRef, typingInterval,
                   typingRetry, typingListening, typingMounted, inputValue,
                   typingNow, lastInputAt>>

\* the user edits the field: an input event, handleInput where attached
InputEvent(value) ==
    /\ webchatLoaded
    /\ value # inputValue
    /\ inputValue' = value
    /\ lastInputAt' = typingNow
    /\ IF typingListening
       THEN checkTyping(value)
       ELSE UNCHANGED <<isTyping, typingTimeoutRef>>
    /\ UNCHANGED <<typingFrame, typingInterval, typingRetry, typingListening,
                   typingMounted, webchatLoaded, typingNow>>

\* the page empties the field (a sent message): no input event
FieldEmptied ==
    /\ webchatLoaded
    /\ inputValue # EmptyStr
    /\ inputValue' = EmptyStr
    /\ UNCHANGED <<typingFrame, isTyping, typingTimeoutRef, typingInterval,
                   typingRetry, typingListening, typingMounted, webchatLoaded,
                   typingNow, lastInputAt>>

\* setTimeout(startMonitoring, 1000) fires
MonitoringRetryFires ==
    /\ typingRetry # 0
    /\ typingRetry = typingNow
    /\ startMonitoring
    /\ UNCHANGED <<typingFrame, typingInterval, typingMounted, webchatLoaded,
                   inputValue, typingNow, lastInputAt>>

\* setInterval(checkTyping, 500) fires
TypingIntervalFires ==
    /\ typingInterval # 0
    /\ typingInterval = typingNow
    /\ checkTyping(inputValue)
    /\ typingInterval' = typingNow + TypingCheckInterval
    /\ UNCHANGED <<typingFrame, typingRetry, typingListening, typingMounted,
                   webchatLoaded, inputValue, typingNow, lastInputAt>>

\* the timeout of checkTyping fires: setIsTyping(false)
TypingTimeoutFires ==
    /\ typingTimeoutRef # 0
    /\ typingTimeoutRef = typingNow
    /\ isTyping' = FALSE
    /\ typingTimeoutRef' = 0
    /\ UNCHANGED <<typingFrame, typingInterval, typingRetry, typingListening,
                   typingMounted, webchatLoaded, inputValue, typingNow,
                   lastInputAt>>

\* the cleanup of the effect
UnmountTyping ==
    /\ typingMounted
    /\ typingInterval' = 0
    /\ typingTimeoutRef' = 0
    /\ typingMounted' = FALSE
    /\ UNCHANGED <<typingFrame, isTyping, typingRetry, typingListening,
                   webchatLoaded, inputValue, typingNow, lastInputAt>>

TypingDeadlines == {typingTimeoutRef, typingInterval, typingRetry} \ {0}

TypingTimerDue == typingNow \in TypingDeadlines

\* time passes up to the next deadline
TypingAdvance ==
    /\ TypingDeadlines # {}
    /\ ~TypingTimerDue
    /\ typingNow < MaxTypingTime
    /\ typingNow' = CHOOSE d \in TypingDeadlines :
                       \A e \in TypingDeadlines : d <= e
    /\ UNCHANGED <<typingFrame, isTyping, typingTimeoutRef, typingInterval,
                   typingRetry, typingListening, typingMounted, webchatLoaded,
                   inputValue, lastInputAt>>

NextTyping ==
    \/ MountTyping
    \/ WebchatLoads
    \/ \E value \in InputValues : InputEvent(value)
    \/ FieldEmptied
    \/ MonitoringRetryFires
    \/ TypingIntervalFires
    \/ TypingTimeoutFires
    \/ UnmountTyping
    \/ TypingAdvance

SpecTyping == InitTyping /\ [][NextTyping]_vars

(***************************************************************************)
(* SpecWave: the component WaveformAnimation                               *)
(* (components/WaveformAnimation.js).  A change of the props is one step:  *)
(* React runs the cleanup the previous effect returned and then the effect *)
(* again.  The canvas is rendered whenever isActive is true and its size   *)
(* falls back to 800 x 200, so the effect never returns before the loop.   *)
(* The browser is the environment: it runs a requested frame once, unless  *)
(* it was cancelled.                                                       *)
(***************************************************************************)
InitWave ==
    /\ activitiesData = [hasActivities |-> FALSE, activities |-> <<>>]
    /\ selResult = NotCalled
    /\ SvcIdle
    /\ PollIdle
    /\ DomIdle
    /\ SttIdle
    /\ TtsIdle
    /\ NetIdle
    /\ TypingIdle
    /\ WaveIdle

waveFrame == <<coreVars, sttVars, ttsVars, netVars, typingVars>>

\* cancelAnimationFrame(animationFrameRef.current), if the ref is set
CancelCurrentFrame(pending, ref) ==
    {f \in pending : f.id # ref}

\* a cleanup that cancels nothing
CleanupKeepsFrame(pending) == pending

\* the function the effect returned, lines 134-138 (none when the effect
\* returned at line 18)
EffectCleanup(pending) ==
    IF waveHasCleanup THEN CancelCurrentFrame(pending, animationFrameRef)
    ELSE pending

\* the effect of lines 13-139 with the props active and idle, the ref
\* holding ref and the frames pending being those the cleanup left
RunWaveEffect(active, idle, pending, ref) ==
    IF ~active
    THEN /\ pendingFrames' = CancelCurrentFrame(pending, ref)
         /\ waveHasCleanup' = FALSE
         /\ animationFrameRef' = ref
         /\ UNCHANGED framesRequested
    ELSE /\ framesRequested < MaxFrames
         /\ framesRequested' = framesRequested + 1
         /\ animationFrameRef' = framesRequested + 1
         /\ pendingFrames' =
               pending \cup {[id |-> framesRequested + 1, isIdle |-> idle]}
         /\ waveHasCleanup' = TRUE

\* the component is mounted with its first props: its refs are new
MountWave(active, idle) ==
    /\ ~waveMounted
    /\ waveMounted' = TRUE
    /\ isActive' = active
    /\ isIdle' = idle
    /\ RunWaveEffect(active, idle, pendingFrames, 0)
    /\ waveCancelled' = {}
    /\ UNCHANGED waveFrame

\* the parent renders it with other props
ChangeWaveProps(active, idle) ==
    /\ waveMounted
    /\ <<active, idle>> # <<isActive, isIdle>>
    /\ isActive' = active
    /\ isIdle' = idle
    /\ RunWaveEffect(active, idle, EffectCleanup(pendingFrames),
                     animationFrameRef)
    /\ waveCancelled' =
          {f.id : f \in pendingFrames} \ {f.id : f \in pendingFrames'}
    /\ UNCHANGED <<waveFrame, waveMounted>>

\* the browser runs a requested frame: drawWaveform of the effect that
\* requested it draws and requests the next frame
AnimationFrameFires ==
    /\ framesRequested < MaxFrames
    /\ \E f \in pendingFrames :
          pendingFrames' = (pendingFrames \ {f}) \cup
                              {[id |-> framesRequested + 1,
                                isIdle |-> f.isIdle]}
    /\ framesRequested' = framesRequested + 1
    /\ animationFrameRef' = framesRequested + 1
    /\ waveCancelled' = {}
    /\ UNCHANGED <<waveFrame, waveMounted, isActive, isIdle, waveHasCleanup>>

\* the component is unmounted: the cleanup runs
UnmountWave ==
    /\ waveMounted
    /\ waveMounted' = FALSE
    /\ pendingFrames' = EffectCleanup(pendingFrames)
    /\ waveHasCleanup' = FALSE
    /\ waveCancelled' =
          {f.id : f \in pendingFrames} \ {f.id : f \in pendingFrames'}
    /\ UNCHANGED <<waveFrame, isActive, isIdle, animationFrameRef,
                   framesRequested>>

NextWave ==
    \/ \E active \in BOOLEAN, idle \in BOOLEAN : MountWave(active, idle)
    \/ \E active \in BOOLEAN, idle \in BOOLEAN : ChangeWaveProps(active, idle)
    \/ AnimationFrameFires
    \/ UnmountWave

SpecWave == InitWave /\ [][NextWave]_vars

(***************************************************************************)
(* Claims about the speech-to-text service, stated on SpecStt.             *)
(***************************************************************************)
\* a result event that changes a text restarts the silence timeout: one
\* timeout is pending afterwards, due a full silence period later
C29_ResultRestarts ==
    (/\ RecognitionResult
     /\ \/ lastTranscript' # lastTranscript
        \/ accumulatedText' # accumulatedText)
    => /\ silenceTimers' = {sttNow + SILENCE_TIMEOUT_MS}
       /\ silenceTimeout' = sttNow + SILENCE_TIMEOUT_MS

\* the silence timeout fires a full silence period after the last result
\* that restarted it
C29_FiresAfterSilence ==
    SilenceFires => sttNow - lastResultAt >= SILENCE_TIMEOUT_MS

\* an error, an end and an effective stopListening leave no timeout pending
C29_CancelClears ==
    (RecognitionError \/ RecognitionEnd \/ (StopListening /\ isListening))
        => silenceTimers' = {} /\ silenceTimeout' = NoTimer

\* the part of C29 that is about the timeout itself
C29_TimerDiscipline ==
    /\ [](Cardinality(silenceTimers) <= 1)
    /\ [][C29_ResultRestarts /\ C29_FiresAfterSilence /\ C29_CancelClears]_vars

\* the silence timeout does not fire once an error, an end or stopListening
\* has occurred in the session
C29_NoFireAfterCancel == SilenceFires => ~cancelled

\* C29: at most one silence timeout is pending, every result with text
\* restarts it, it fires only a full 2000 ms after the last such result, and
\* after a recognition error, a recognition end or stopListening it is not
\* pending and does not fire any more.
C29_SilenceTimer ==
    /\ [](Cardinality(silenceTimers) <= 1)
    /\ [][/\ C29_ResultRestarts
          /\ C29_FiresAfterSilence
          /\ C29_CancelClears
          /\ C29_NoFireAfterCancel]_vars

\* the final transcripts that a text holds, one character each
FinalsIn(text) ==
    SelectSeq(text, LAMBDA c : <<c>> \in FinalTranscripts)

\* C30: the text of every onFinalResult call holds the final transcripts
\* delivered in the session so far, each once, in the order of arrival.
C30_EachFinalOnce ==
    \A i \in DOMAIN sttCalls :
        FinalsIn(sttCalls[i].text)
            = [k \in 1..Len(sttCalls[i].finalized) |->
                  sttCalls[i].finalized[k][1]]

\* nothing of the service has started
C31_NothingStarted ==
    /\ recognition = "null"
    /\ ~isListening
    /\ silenceTimeout = NoTimer
    /\ silenceTimers = {}
    /\ endTimers = <<>>
    /\ sttResults = 0
    /\ sttCalls = <<>>

C31_StartReportsOnce ==
    (StartBrowserListening /\ ~sttSupported) => sttErrorCalls' = 1

\* C31: when the browser has no speech recognition, every call of
\* startBrowserListening calls onError once, and the service stays as it
\* was before any call: not listening, no recognizer, no timer pending and
\* no result delivered.
C31_UnsupportedStartIsInert ==
    /\ []((~sttSupported) => C31_NothingStarted)
    /\ [][C31_StartReportsOnce]_vars

\* startBrowserListening has just been called in such a browser, some time
\* after the page was loaded
C31_Witness ==
    /\ ~sttSupported
    /\ sttErrorCalls = 1
    /\ sttNow > 0

(***************************************************************************)
(* Claims about the text-to-speech part, stated on SpecTts.                *)
(***************************************************************************)
C32_SpeakLeavesOnlyNew ==
    (ttsMade' = ttsMade + 1) => ttsQueue' = <<ttsMade'>>

\* C32: every speakText that speaks leaves the synthesizer with the new
\* utterance only: an utterance that was being spoken or waiting when it
\* was called has been cancelled, whatever events of earlier utterances
\* have fired.
C32_SpeakCancelsOngoing == [][C32_SpeakLeavesOnlyNew]_vars

(***************************************************************************)
(* Claims about the network monitor, stated on SpecNet.                    *)
(***************************************************************************)
\* every listener call of the last step carries a known id and token and
\* goes to a callback whose unsubscribe function had not been called
C33_CallsComplete ==
    \A i \in 1..Len(netCalls) :
        /\ Known(netCalls[i].conversationId)
        /\ Known(netCalls[i].bearerToken)
        /\ ~netCalls[i].afterUnsubscribe

\* a subscription calls the new listener, and only it, exactly when both
\* values are known
C33_SubscribeStep ==
    netHandler' = "onCredentialsDetected" =>
        /\ (netCalls' # <<>>) <=>
              (Known(detectedConversationId) /\ Known(detectedBearerToken))
        /\ \A i \in 1..Len(netCalls') :
              /\ netCalls'[i].callback \in Callbacks
              /\ netCalls'[i].conversationId = detectedConversationId
              /\ netCalls'[i].bearerToken = detectedBearerToken

\* any other step that calls listeners is a detection that stored a
\* different value (that both values of each call are known is
\* C33_CallsComplete)
C33_DetectionStep ==
    (netHandler' # "onCredentialsDetected" /\ netCalls' # <<>>) =>
        /\ netHandler' \in {"fetch", "open", "setRequestHeader"}
        /\ \/ detectedConversationId' # detectedConversationId
           \/ detectedBearerToken' # detectedBearerToken

\* C33: a credentials listener is only invoked with a conversation id and a
\* bearer token both present, immediately on subscription exactly when both
\* are known, on a detection only when a different value was stored and
\* both are then known, and never after its unsubscribe function was called.
C33_ListenerCalls ==
    /\ []C33_CallsComplete
    /\ [][C33_SubscribeStep /\ C33_DetectionStep]_vars

C34_NewPairOnly ==
    (/\ netHandler' = "fetch"
     /\ detectedConversationId' # detectedConversationId
     /\ detectedBearerToken' # detectedBearerToken
     /\ Known(detectedConversationId')
     /\ Known(detectedBearerToken')) =>
        \A i \in 1..Len(netCalls') :
            /\ netCalls'[i].conversationId = detectedConversationId'
            /\ netCalls'[i].bearerToken = detectedBearerToken'

\* C34: a request that carries a new conversation id and a new bearer token
\* notifies the listeners with the new pair only, never with the new id and
\* the token stored before.
C34_NoMixedPair == [][C34_NewPairOnly]_vars

(***************************************************************************)
(* Claims about useTypingDetection, stated on SpecTyping.                  *)
(***************************************************************************)
\* C35: once the user has typed, isTyping is false again when more than 2
\* seconds have passed since the last input event and every timer due by
\* then has run, whether or not the typed text is still in the field (no
\* typing indicator shown, hook mounted).
C35_TypingClears ==
    (/\ typingMounted
     /\ ~indicatorVisible
     /\ lastInputAt >= 0
     /\ typingNow > lastInputAt + TypingClearDelay
     /\ ~TypingTimerDue) => ~isTyping

(***************************************************************************)
(* Claims about WaveformAnimation, stated on SpecWave.                     *)
(***************************************************************************)
\* C36: while isActive is false no animation frame is pending, and at any
\* time at most one frame request is outstanding, whatever the changes of
\* isActive and isIdle were.
C36_OneRenderLoop ==
    /\ (waveMounted /\ ~isActive) => pendingFrames = {}
    /\ Cardinality(pendingFrames) <= 1

C36_Witness ==
    /\ waveMounted
    /\ ~isActive
    /\ waveCancelled # {}
    /\ \E id \in waveCancelled : id >= 3

====
